---- MODULE Spec2Model ----
\* The privacy decision pipeline generated from entc/gen/template/privacy.tmpl:
\* decisions (errors), decision contexts, rules, rule adapters and the
\* QueryPolicy / MutationPolicy evaluation loops; and the generated client
\* code the pipeline guards: the CardCreate builders (card_create.go), the
\* GroupTag entity (grouptag.go) and the DeleteOne builders.
EXTENDS Integers, Sequences, FiniteSets, TLC

VARIABLES
    ctxs,   \* the derived context nodes; context 0 is context.Background()
    call,   \* the last call made on the package, with its arguments and results
    procs,  \* the goroutines deriving contexts concurrently
    ents,   \* the GroupTag entities allocated, by address
    del,    \* the mutations of the FileDelete and DeviceDelete builders
    builders    \* the CardCreate builders

vars == <<ctxs, call, procs, ents, del, builders>>

\* the state outside the privacy package
client == <<procs, ents, del, builders>>

\* ---------------------------------------------------------------- bounds
\* longest policy
MaxRules == 3
\* number of derived context nodes
MaxCtx == 2
\* deepest nesting of formatted decisions
MaxWrap == 1
\* longest policy made of rule adapters
MaxAdapters == 1
\* deepest chain of wrappers around one sentinel
MaxLayers == 2
\* longest policy evaluated next to wrapped decisions or to a second policy
MaxShort == 2
\* goroutines deriving contexts at the same time
MaxProcs == 2
\* most entities one delete removes
MaxAffected == 2
\* most builders in one CardCreateBulk
MaxBuilders == 2
\* longest sequence of DecisionContext calls of one operation
MaxChain == 3

\* ---------------------------------------------------------------- errors
\* An error value is nil, or a tree of wrapped errors: `roots` are the
\* errors.New values at its leaves, `layers` the messages wrapped around them,
\* outermost first.
NilErr == [nil |-> TRUE, roots |-> {}, layers |-> <<>>]

ErrorsNew(text) == [nil |-> FALSE, roots |-> {text}, layers |-> <<>>]

Allow == ErrorsNew("ent/privacy: allow rule")

Deny == ErrorsNew("ent/privacy: deny rule")

Skip == ErrorsNew("ent/privacy: skip rule")

\* an error of the caller that is none of the three decisions
ErrOther == ErrorsNew("boom")

\* errors.Is looking one level down only (errors.Unwrap(err) == target).
ErrorsIsOneLevel(err, target) ==
    /\ ~err.nil
    /\ Len(err.layers) <= 1
    /\ \E r \in err.roots : ErrorsNew(r) = target

\* errors.Is(err, target) for a target made by errors.New: some error of
\* err's tree is that very value.
ErrorsIs(err, target) ==
    /\ ~err.nil
    /\ \E r \in err.roots : ErrorsNew(r) = target

RECURSIVE JoinLayers(_, _)
JoinLayers(operands, i) ==
    IF i > Len(operands) THEN <<>>
    ELSE operands[i].layers \o JoinLayers(operands, i + 1)

\* fmt.Errorf(text, ...) whose %w verbs wrap `operands`, in order.
Errorf(text, operands) ==
    [nil |-> FALSE,
     roots |-> UNION {operands[i].roots : i \in 1..Len(operands)},
     layers |-> <<text>> \o JoinLayers(operands, 1)]

\* Allowf / Denyf / Skipf: fmt.Errorf(format+": %w", append(a, Decision)...).
\* `format` is the formatted text, `a` the errors among the arguments that
\* the format wraps with %w.
Allowf(format, a) == Errorf(format, a \o <<Allow>>)

Denyf(format, a) == Errorf(format, a \o <<Deny>>)

Skipf(format, a) == Errorf(format, a \o <<Skip>>)

\* ---------------------------------------------------------------- inputs
Msgs == {"m1"}

Sentinels == {Allow, Deny, Skip}

RECURSIVE Errs(_)
Errs(k) ==
    IF k = 0 THEN Sentinels \cup {ErrOther}
    ELSE LET prev == Errs(k - 1)
             args == {<<>>} \cup {<<e>> : e \in prev \ {ErrOther}}
         IN  prev
             \cup {Allowf(m, a) : m \in Msgs, a \in args}
             \cup {Denyf(m, a) : m \in Msgs, a \in args}
             \cup {Skipf(m, a) : m \in Msgs, a \in args}

\* every error value a rule or a caller may produce, nil included
Decisions == {NilErr} \cup Errs(MaxWrap)

\* One sentinel under up to k wrappers: Allowf / Denyf / Skipf make the first
\* layer, fmt.Errorf("...: %w", err) each further one.
RECURSIVE Wraps(_)
Wraps(k) ==
    IF k = 0 THEN Sentinels
    ELSE LET prev == Wraps(k - 1)
         IN  prev
             \cup {Allowf(m, <<>>) : m \in Msgs}
             \cup {Denyf(m, <<>>) : m \in Msgs}
             \cup {Skipf(m, <<>>) : m \in Msgs}
             \cup {Errorf(m, <<e>>) : m \in Msgs, e \in prev \ Sentinels}

WrapDecisions == {NilErr} \cup Wraps(MaxLayers)

\* ---------------------------------------------------------------- contexts
decisionCtxKey == "decisionCtxKey"

Background == 0

CtxIds == 0..Len(ctxs)

\* ctx.Value(key): the value of the nearest node holding the key.
RECURSIVE CtxValue(_, _, _)
CtxValue(heap, c, key) ==
    IF c = Background THEN [found |-> FALSE, val |-> NilErr]
    ELSE IF heap[c].key = key THEN [found |-> TRUE, val |-> heap[c].val]
    ELSE CtxValue(heap, heap[c].parent, key)

\* context.WithValue writing the value into the parent's node.
WithValueInPlace(heap, parent, key, val) ==
    IF parent = Background
    THEN [heap |-> Append(heap, [parent |-> parent, key |-> key, val |-> val]),
          ctx |-> Len(heap) + 1]
    ELSE [heap |-> [heap EXCEPT ![parent] = [@ EXCEPT !.key = key, !.val = val]],
          ctx |-> parent]

\* context.WithValue(parent, key, val): a new node; the parent is not touched.
WithValue(heap, parent, key, val) ==
    [heap |-> Append(heap, [parent |-> parent, key |-> key, val |-> val]),
     ctx |-> Len(heap) + 1]

\* DecisionContext without the Skip test: a Skip is stored like any error.
DecisionContextStoresSkip(heap, parent, decision) ==
    IF decision = NilErr
    THEN [heap |-> heap, ctx |-> parent]
    ELSE WithValue(heap, parent, decisionCtxKey, decision)

\* DecisionContext comparing with == instead of errors.Is.
DecisionContextSkipIdentity(heap, parent, decision) ==
    IF decision = NilErr \/ decision = Skip
    THEN [heap |-> heap, ctx |-> parent]
    ELSE WithValue(heap, parent, decisionCtxKey, decision)

\* DecisionContext keeping the decision its parent already carries.
DecisionContextKeepsFirst(heap, parent, decision) ==
    IF decision = NilErr \/ ErrorsIs(decision, Skip)
       \/ CtxValue(heap, parent, decisionCtxKey).found
    THEN [heap |-> heap, ctx |-> parent]
    ELSE WithValue(heap, parent, decisionCtxKey, decision)

DecisionContext(heap, parent, decision) ==
    IF decision = NilErr \/ ErrorsIs(decision, Skip)
    THEN [heap |-> heap, ctx |-> parent]
    ELSE WithValue(heap, parent, decisionCtxKey, decision)

\* DecisionContext called once for each decision of ds from the i-th on, the
\* first call on c and each further call on the context the call before it
\* returned: ctx = DecisionContext(ctx, d). `outs` are the contexts returned.
RECURSIVE DecisionContextChain(_, _, _, _)
DecisionContextChain(heap, c, ds, i) ==
    IF i > Len(ds) THEN [heap |-> heap, ctx |-> c, outs |-> <<>>]
    ELSE LET r == DecisionContext(heap, c, ds[i])
             rest == DecisionContextChain(r.heap, r.ctx, ds, i + 1)
         IN  [heap |-> rest.heap, ctx |-> rest.ctx, outs |-> <<r.ctx>> \o rest.outs]

\* decisionFromContext comparing with == instead of errors.Is.
decisionFromContextPlainAllow(heap, c) ==
    LET v == CtxValue(heap, c, decisionCtxKey)
        ok == v.found
    IN  IF ok /\ v.val = Allow
        THEN [decision |-> NilErr, ok |-> ok]
        ELSE [decision |-> v.val, ok |-> ok]

decisionFromContext(heap, c) ==
    LET v == CtxValue(heap, c, decisionCtxKey)
        ok == v.found
    IN  IF ok /\ ErrorsIs(v.val, Allow)
        THEN [decision |-> NilErr, ok |-> ok]
        ELSE [decision |-> v.val, ok |-> ok]

\* ---------------------------------------------------------------- operations
\* The entity types of the schema ($.Nodes) and the operation kinds of ent.Op.
Types == {"Card", "User"}

OpKinds == {"Create", "Update", "Delete"}

\* An ent.Op is a bit mask: a set of operation kinds.
Ops == SUBSET OpKinds

\* Op.Is: the two masks share a bit.
OpIs(i, o) == i \cap o # {}

Queries == [type : Types]

Mutations == [type : Types, op : {{k} : k \in OpKinds}]

\* %T of a query / mutation value
QueryTypeName(q) == "*ent." \o q.type \o "Query"

MutationTypeName(m) == "*ent." \o m.type \o "Mutation"

\* ---------------------------------------------------------------- rules
\* A rule evaluation yields the decision returned (ret) and the rules and
\* user functions it invoked, in order (log). A policy's i-th rule is <<i>>,
\* what that rule wraps or calls is <<i, 1>>, and so on.

\* A user function given to an adapter: it returns f.ret.
UserFunc(f, at) == [ret |-> f.ret, log |-> <<at>>]

QueryRuleFuncEvalQuery(f, c, q, at) == UserFunc(f, at)

MutationRuleFuncEvalMutation(f, c, m, at) == UserFunc(f, at)

fixedDecisionEvalQuery(f, c, q, at) == [ret |-> f.decision, log |-> <<at>>]

fixedDecisionEvalMutation(f, c, m, at) == [ret |-> f.decision, log |-> <<at>>]

AlwaysAllowRule == [kind |-> "fixed", decision |-> Allow]

\* AlwaysDenyRule built with the wrong decision.
AlwaysDenyRuleAllows == [kind |-> "fixed", decision |-> Allow]

AlwaysDenyRule == [kind |-> "fixed", decision |-> Deny]

\* The node adapter without its type check.
NodeQueryRuleFuncEvalQueryUnchecked(f, c, q, at) ==
    LET r == UserFunc(f, at \o <<1>>)
    IN  [ret |-> r.ret, log |-> <<at>> \o r.log]

\* <Node>QueryRuleFunc.EvalQuery, for the node f.type
NodeQueryRuleFuncEvalQuery(f, c, q, at) ==
    IF q.type = f.type
    THEN LET r == UserFunc(f, at \o <<1>>)
         IN  [ret |-> r.ret, log |-> <<at>> \o r.log]
    ELSE [ret |-> Denyf("ent/privacy: unexpected query type " \o QueryTypeName(q)
                        \o ", expect *ent." \o f.type \o "Query", <<>>),
          log |-> <<at>>]

\* <Node>MutationRuleFunc.EvalMutation, for the node f.type
NodeMutationRuleFuncEvalMutation(f, c, m, at) ==
    IF m.type = f.type
    THEN LET r == UserFunc(f, at \o <<1>>)
         IN  [ret |-> r.ret, log |-> <<at>> \o r.log]
    ELSE [ret |-> Denyf("ent/privacy: unexpected mutation type " \o MutationTypeName(m)
                        \o ", expect *ent." \o f.type \o "Mutation", <<>>),
          log |-> <<at>>]

\* QueryRule.EvalQuery: dispatch on the rule's dynamic type.
QueryRuleEvalQuery(rule, c, q, at) ==
    CASE rule.kind = "func" -> QueryRuleFuncEvalQuery(rule, c, q, at)
      [] rule.kind = "fixed" -> fixedDecisionEvalQuery(rule, c, q, at)
      [] rule.kind = "node" -> NodeQueryRuleFuncEvalQuery(rule, c, q, at)

RECURSIVE MutationRuleEvalMutation(_, _, _, _)

\* The rule OnMutationOperation(rule, op) builds, and the function it wraps.
OnMutationOperation(rule, op) == [kind |-> "onop", rule |-> rule, op |-> op]

\* OnMutationOperation evaluating the wrapped rule before testing the operation.
OnMutationOperationFuncEager(f, c, m, at) ==
    LET r == MutationRuleEvalMutation(f.rule, c, m, at \o <<1>>)
    IN  IF OpIs(m.op, f.op)
        THEN [ret |-> r.ret, log |-> <<at>> \o r.log]
        ELSE [ret |-> Skip, log |-> <<at>> \o r.log]

OnMutationOperationFunc(f, c, m, at) ==
    IF OpIs(m.op, f.op)
    THEN LET r == MutationRuleEvalMutation(f.rule, c, m, at \o <<1>>)
         IN  [ret |-> r.ret, log |-> <<at>> \o r.log]
    ELSE [ret |-> Skip, log |-> <<at>>]

\* m.Op() formatted with %s, for a mutation of one operation kind
OpString(o) == "Op" \o (CHOOSE k \in o : TRUE)

\* The function of DenyMutationOperationRule letting the operation through.
DenyOperationFuncSkips(f, c, m, at) ==
    [ret |-> Skipf("ent/privacy: operation " \o OpString(m.op) \o " is not allowed", <<>>),
     log |-> <<at>>]

\* The function DenyMutationOperationRule wraps:
\* return Denyf("ent/privacy: operation %s is not allowed", m.Op())
DenyOperationFunc(f, c, m, at) ==
    [ret |-> Denyf("ent/privacy: operation " \o OpString(m.op) \o " is not allowed", <<>>),
     log |-> <<at>>]

DenyMutationOperationRule(op) == OnMutationOperation([kind |-> "denyop"], op)

\* MutationRule.EvalMutation: dispatch on the rule's dynamic type.
MutationRuleEvalMutation(rule, c, m, at) ==
    CASE rule.kind = "func" -> MutationRuleFuncEvalMutation(rule, c, m, at)
      [] rule.kind = "fixed" -> fixedDecisionEvalMutation(rule, c, m, at)
      [] rule.kind = "node" -> NodeMutationRuleFuncEvalMutation(rule, c, m, at)
      [] rule.kind = "onop" -> OnMutationOperationFunc(rule, c, m, at)
      [] rule.kind = "denyop" -> DenyOperationFunc(rule, c, m, at)

\* ---------------------------------------------------------------- policies
RECURSIVE QueryPolicyRange(_, _, _, _)

\* The query loop failing closed: an exhausted policy denies.
QueryPolicyRangeFailClosed(policy, c, q, i) ==
    IF i > Len(policy) THEN [ret |-> Deny, log |-> <<>>]
    ELSE LET r == QueryRuleEvalQuery(policy[i], c, q, <<i>>)
             decision == r.ret
         IN  IF decision = NilErr \/ ErrorsIs(decision, Skip)
             THEN LET rest == QueryPolicyRange(policy, c, q, i + 1)
                  IN  [ret |-> rest.ret, log |-> r.log \o rest.log]
             ELSE IF ErrorsIs(decision, Allow)
             THEN [ret |-> NilErr, log |-> r.log]
             ELSE [ret |-> decision, log |-> r.log]

\* The query loop returning the Deny sentinel instead of the rule's error.
QueryPolicyRangePlainDeny(policy, c, q, i) ==
    IF i > Len(policy) THEN [ret |-> NilErr, log |-> <<>>]
    ELSE LET r == QueryRuleEvalQuery(policy[i], c, q, <<i>>)
             decision == r.ret
         IN  IF decision = NilErr \/ ErrorsIs(decision, Skip)
             THEN LET rest == QueryPolicyRange(policy, c, q, i + 1)
                  IN  [ret |-> rest.ret, log |-> r.log \o rest.log]
             ELSE IF ErrorsIs(decision, Allow)
             THEN [ret |-> NilErr, log |-> r.log]
             ELSE [ret |-> Deny, log |-> r.log]

\* The query loop with the Allow case ahead of the Skip case.
QueryPolicyRangeAllowFirst(policy, c, q, i) ==
    IF i > Len(policy) THEN [ret |-> NilErr, log |-> <<>>]
    ELSE LET r == QueryRuleEvalQuery(policy[i], c, q, <<i>>)
             decision == r.ret
         IN  IF ErrorsIs(decision, Allow)
             THEN [ret |-> NilErr, log |-> r.log]
             ELSE IF decision = NilErr \/ ErrorsIs(decision, Skip)
             THEN LET rest == QueryPolicyRange(policy, c, q, i + 1)
                  IN  [ret |-> rest.ret, log |-> r.log \o rest.log]
             ELSE [ret |-> decision, log |-> r.log]

\* The query loop reading a rule's nil as permission granted.
QueryPolicyRangeNilAllows(policy, c, q, i) ==
    IF i > Len(policy) THEN [ret |-> NilErr, log |-> <<>>]
    ELSE LET r == QueryRuleEvalQuery(policy[i], c, q, <<i>>)
             decision == r.ret
         IN  IF decision # NilErr /\ ErrorsIs(decision, Skip)
             THEN LET rest == QueryPolicyRange(policy, c, q, i + 1)
                  IN  [ret |-> rest.ret, log |-> r.log \o rest.log]
             ELSE IF decision = NilErr \/ ErrorsIs(decision, Allow)
             THEN [ret |-> NilErr, log |-> r.log]
             ELSE [ret |-> decision, log |-> r.log]

QueryPolicyRange(policy, c, q, i) ==
    IF i > Len(policy) THEN [ret |-> NilErr, log |-> <<>>]
    ELSE LET r == QueryRuleEvalQuery(policy[i], c, q, <<i>>)
             decision == r.ret
         IN  IF decision = NilErr \/ ErrorsIs(decision, Skip)
             THEN LET rest == QueryPolicyRange(policy, c, q, i + 1)
                  IN  [ret |-> rest.ret, log |-> r.log \o rest.log]
             ELSE IF ErrorsIs(decision, Allow)
             THEN [ret |-> NilErr, log |-> r.log]
             ELSE [ret |-> decision, log |-> r.log]

\* EvalQuery without the look at the context.
QueryPolicyEvalQueryNoCache(heap, policy, c, q) ==
    QueryPolicyRange(policy, c, q, 1)

QueryPolicyEvalQuery(heap, policy, c, q) ==
    LET d == decisionFromContext(heap, c)
    IN  IF d.ok THEN [ret |-> d.decision, log |-> <<>>]
        ELSE QueryPolicyRange(policy, c, q, 1)

RECURSIVE MutationPolicyRange(_, _, _, _)

\* The mutation loop remembering an Allow but running the remaining rules.
MutationPolicyRangeAllowContinues(policy, c, m, i) ==
    IF i > Len(policy) THEN [ret |-> NilErr, log |-> <<>>]
    ELSE LET r == MutationRuleEvalMutation(policy[i], c, m, <<i>>)
             decision == r.ret
         IN  IF decision = NilErr \/ ErrorsIs(decision, Skip)
             THEN LET rest == MutationPolicyRange(policy, c, m, i + 1)
                  IN  [ret |-> rest.ret, log |-> r.log \o rest.log]
             ELSE IF ErrorsIs(decision, Allow)
             THEN LET rest == MutationPolicyRange(policy, c, m, i + 1)
                  IN  [ret |-> NilErr, log |-> r.log \o rest.log]
             ELSE [ret |-> decision, log |-> r.log]

MutationPolicyRange(policy, c, m, i) ==
    IF i > Len(policy) THEN [ret |-> NilErr, log |-> <<>>]
    ELSE LET r == MutationRuleEvalMutation(policy[i], c, m, <<i>>)
             decision == r.ret
         IN  IF decision = NilErr \/ ErrorsIs(decision, Skip)
             THEN LET rest == MutationPolicyRange(policy, c, m, i + 1)
                  IN  [ret |-> rest.ret, log |-> r.log \o rest.log]
             ELSE IF ErrorsIs(decision, Allow)
             THEN [ret |-> NilErr, log |-> r.log]
             ELSE [ret |-> decision, log |-> r.log]

MutationPolicyEvalMutation(heap, policy, c, m) ==
    LET d == decisionFromContext(heap, c)
    IN  IF d.ok THEN [ret |-> d.decision, log |-> <<>>]
        ELSE MutationPolicyRange(policy, c, m, 1)

\* ---------------------------------------------------------------- combined policy
\* the rules invoked, each with the field of the Policy it belongs to
FieldLog(field, log) == [i \in 1..Len(log) |-> [field |-> field, at |-> log[i]]]

\* Policy.EvalQuery forwarding to the mutation rules.
PolicyEvalQueryViaMutation(heap, policy, c, q) ==
    LET r == QueryPolicyEvalQuery(heap, policy.Mutation, c, q)
    IN  [ret |-> r.ret, log |-> FieldLog("Mutation", r.log)]

\* Policy.EvalQuery: return policy.Query.EvalQuery(ctx, q)
PolicyEvalQuery(heap, policy, c, q) ==
    LET r == QueryPolicyEvalQuery(heap, policy.Query, c, q)
    IN  [ret |-> r.ret, log |-> FieldLog("Query", r.log)]

\* Policy.EvalMutation: return policy.Mutation.EvalMutation(ctx, m)
PolicyEvalMutation(heap, policy, c, m) ==
    LET r == MutationPolicyEvalMutation(heap, policy.Mutation, c, m)
    IN  [ret |-> r.ret, log |-> FieldLog("Mutation", r.log)]

\* ---------------------------------------------------------------- input sets
RECURSIVE SeqsUpTo(_, _)
SeqsUpTo(S, n) ==
    IF n = 0 THEN {<<>>}
    ELSE LET shorter == SeqsUpTo(S, n - 1)
         IN  shorter \cup {Append(p, x) : p \in shorter, x \in S}

\* rules that are plain functions (QueryRuleFunc / MutationRuleFunc)
FuncRules == {[kind |-> "func", ret |-> d] : d \in Decisions}

FuncPolicies == SeqsUpTo(FuncRules, MaxRules)

NodeRules == {[kind |-> "node", type |-> t, ret |-> d] : t \in Types, d \in Decisions}

FixedRules == {AlwaysAllowRule, AlwaysDenyRule}

QueryAdapters == FixedRules \cup NodeRules

MutationAdapters ==
    FixedRules \cup NodeRules
    \cup {OnMutationOperation(r, op) : r \in FuncRules \cup FixedRules, op \in Ops}
    \cup {DenyMutationOperationRule(op) : op \in Ops}

QueryAdapterPolicies == SeqsUpTo(QueryAdapters, MaxAdapters)

MutationAdapterPolicies == SeqsUpTo(MutationAdapters, MaxAdapters)

WrapPolicies == SeqsUpTo({[kind |-> "func", ret |-> d] : d \in WrapDecisions}, MaxShort)

\* the decisions an operation in flight records in its context
OperationDecisions == {NilErr, Skipf("m1", <<>>), Allowf("m1", <<>>), Denyf("m1", <<>>)}

\* errors that wrap two or three of the sentinels: Allowf("%w", Skip) is
\* fmt.Errorf("%w: %w", Skip, Allow), which errors.Is matches with both
JoinedDecisions ==
    {Allowf("m1", <<Skip>>), Denyf("m1", <<Skip>>), Denyf("m1", <<Allow>>),
     Denyf("m1", <<Skip, Allow>>)}

JoinedPolicies ==
    SeqsUpTo({[kind |-> "func", ret |-> d] : d \in {NilErr} \cup Sentinels \cup JoinedDecisions},
             MaxShort)

\* the decisions of the calls of one operation, in order
ChainDecisions == {NilErr, Skip, Skipf("m1", <<>>), Allow, Denyf("m1", <<>>), ErrOther}

Chains == SeqsUpTo(ChainDecisions, MaxChain)

\* the policies paired into a combined Policy
PairDecisions == {Skip, Allow, Deny, Denyf("m1", <<>>)}

ShortPolicies == SeqsUpTo({[kind |-> "func", ret |-> d] : d \in PairDecisions}, MaxShort)

CombinedPolicies == [Query : ShortPolicies, Mutation : ShortPolicies]

\* ---------------------------------------------------------------- actions
\* the context most recently derived: the one a threading caller holds
Latest == {Len(ctxs)}

NoArg == [type |-> "none"]

NoRule == [kind |-> "none"]

NoCall ==
    [op |-> "none", ctx |-> Background, decision |-> NilErr, policy |-> <<>>,
     rule |-> NoRule, arg |-> NoArg, ret |-> NilErr, ok |-> FALSE,
     out |-> Background, log |-> <<>>, after |-> <<>>,
     combined |-> [Query |-> <<>>, Mutation |-> <<>>],
     val |-> "nil", inner |-> [n |-> 0, err |-> NilErr], panic |-> "",
     gates |-> <<>>, stored |-> <<>>, nodes |-> <<>>,
     ptr |-> [ok |-> FALSE, v |-> ""], chain |-> <<>>, outs |-> <<>>,
     trace |-> <<>>]

NoDeletes == [File |-> [done |-> FALSE], Device |-> [done |-> FALSE]]

\* no goroutine, entity or builder yet, and nothing stored
InitClient ==
    /\ procs = <<>>
    /\ ents = <<>>
    /\ del = NoDeletes
    /\ builders = <<>>

Init ==
    /\ ctxs = <<>>
    /\ call = NoCall
    /\ InitClient

\* The caller is sequential: it makes a call, takes its results, and goes on.
Idle == call.op = "none"

Return ==
    /\ ~Idle
    /\ call' = NoCall
    /\ UNCHANGED <<ctxs, client>>

\* An evaluation that drains its policy: the rules it invoked are gone.
PolicyEvalFrameConsumes(heap, policy, log) ==
    [heap |-> heap, policy |-> SubSeq(policy, Len(log) + 1, Len(policy))]

\* What EvalQuery / EvalMutation leave behind: the loops only read the
\* context and range over the policy, so both are as they were.
PolicyEvalFrame(heap, policy, log) == [heap |-> heap, policy |-> policy]

\* privacy.DecisionContext(parent, d)
DecisionContextCall(parents, decisions) ==
    /\ Idle
    /\ UNCHANGED client
    /\ \E parent \in parents, d \in decisions :
        LET r == DecisionContext(ctxs, parent, d)
        IN  /\ Len(r.heap) <= MaxCtx
            /\ ctxs' = r.heap
            /\ call' = [NoCall EXCEPT !.op = "DecisionContext", !.ctx = parent,
                                      !.decision = d, !.out = r.ctx]

\* An operation starts from Background, calls DecisionContext with each
\* decision of ds in turn, and reads the decision back from the last context.
DecisionContextChainCall ==
    /\ Idle
    /\ UNCHANGED client
    /\ \E ds \in Chains :
        LET r == DecisionContextChain(ctxs, Background, ds, 1)
            d == decisionFromContext(r.heap, r.ctx)
        IN  /\ Len(r.heap) <= MaxChain
            /\ ctxs' = r.heap
            /\ call' = [NoCall EXCEPT !.op = "DecisionContextChain", !.ctx = Background,
                                      !.chain = ds, !.outs = r.outs, !.out = r.ctx,
                                      !.ret = d.decision, !.ok = d.ok]

\* decisionFromContext(c)
DecisionFromContextCall ==
    /\ Idle
    /\ UNCHANGED client
    /\ \E c \in CtxIds :
        LET r == decisionFromContext(ctxs, c)
        IN  /\ call' = [NoCall EXCEPT !.op = "decisionFromContext", !.ctx = c,
                                      !.ret = r.decision, !.ok = r.ok]
            /\ UNCHANGED ctxs

\* policy.EvalQuery(c, q) on a QueryPolicy
EvalQueryCall(policies, contexts, queries) ==
    /\ Idle
    /\ UNCHANGED client
    /\ \E policy \in policies, c \in contexts, q \in queries :
        LET r == QueryPolicyEvalQuery(ctxs, policy, c, q)
            f == PolicyEvalFrame(ctxs, policy, r.log)
        IN  /\ call' = [NoCall EXCEPT !.op = "EvalQuery", !.ctx = c, !.policy = policy,
                                      !.arg = q, !.ret = r.ret, !.log = r.log,
                                      !.after = f.policy]
            /\ ctxs' = f.heap

\* policy.EvalMutation(c, m) on a MutationPolicy
EvalMutationCall(policies, contexts, mutations) ==
    /\ Idle
    /\ UNCHANGED client
    /\ \E policy \in policies, c \in contexts, m \in mutations :
        LET r == MutationPolicyEvalMutation(ctxs, policy, c, m)
            f == PolicyEvalFrame(ctxs, policy, r.log)
        IN  /\ call' = [NoCall EXCEPT !.op = "EvalMutation", !.ctx = c, !.policy = policy,
                                      !.arg = m, !.ret = r.ret, !.log = r.log,
                                      !.after = f.policy]
            /\ ctxs' = f.heap

\* policy.EvalQuery(c, q) on a combined Policy
PolicyEvalQueryCall ==
    /\ Idle
    /\ UNCHANGED client
    /\ \E policy \in CombinedPolicies, c \in Latest, q \in Queries :
        LET r == PolicyEvalQuery(ctxs, policy, c, q)
        IN  /\ call' = [NoCall EXCEPT !.op = "PolicyEvalQuery", !.ctx = c,
                                      !.combined = policy, !.arg = q,
                                      !.ret = r.ret, !.log = r.log]
            /\ UNCHANGED ctxs

\* policy.EvalMutation(c, m) on a combined Policy
PolicyEvalMutationCall ==
    /\ Idle
    /\ UNCHANGED client
    /\ \E policy \in CombinedPolicies, c \in Latest, m \in Mutations :
        LET r == PolicyEvalMutation(ctxs, policy, c, m)
        IN  /\ call' = [NoCall EXCEPT !.op = "PolicyEvalMutation", !.ctx = c,
                                      !.combined = policy, !.arg = m,
                                      !.ret = r.ret, !.log = r.log]
            /\ UNCHANGED ctxs

\* rule.EvalQuery(c, q) on a single query rule
RuleEvalQueryCall ==
    /\ Idle
    /\ UNCHANGED client
    /\ \E rule \in QueryAdapters, c \in Latest, q \in Queries :
        LET r == QueryRuleEvalQuery(rule, c, q, <<1>>)
        IN  /\ call' = [NoCall EXCEPT !.op = "RuleEvalQuery", !.ctx = c, !.rule = rule,
                                      !.arg = q, !.ret = r.ret, !.log = r.log]
            /\ UNCHANGED ctxs

\* rule.EvalMutation(c, m) on a single mutation rule
RuleEvalMutationCall ==
    /\ Idle
    /\ UNCHANGED client
    /\ \E rule \in MutationAdapters, c \in Latest, m \in Mutations :
        LET r == MutationRuleEvalMutation(rule, c, m, <<1>>)
        IN  /\ call' = [NoCall EXCEPT !.op = "RuleEvalMutation", !.ctx = c, !.rule = rule,
                                      !.arg = m, !.ret = r.ret, !.log = r.log]
            /\ UNCHANGED ctxs

\* ---------------------------------------------------------------- goroutines
\* A goroutine calls DecisionContext once. Its call takes two steps, so that
\* the calls of several goroutines overlap: the arguments are evaluated and
\* the call entered (Go), then the body runs (Derive).
NotStarted ==
    [pc |-> "idle", parent |-> Background, decision |-> NilErr,
     seen |-> [found |-> FALSE, val |-> NilErr], out |-> Background]

\* the contexts a program holds before its goroutines start: Background, or
\* one context derived from it
InitConc ==
    /\ ctxs \in {DecisionContext(<<>>, Background, d).heap : d \in OperationDecisions}
    /\ call = NoCall
    /\ procs = [p \in 1..MaxProcs |-> NotStarted]
    /\ ents = <<>>
    /\ del = NoDeletes
    /\ builders = <<>>

\* goroutine p enters DecisionContext(parent, d); `seen` is what parent
\* carries at that moment
Go(p) ==
    /\ procs[p].pc = "idle"
    /\ \E parent \in CtxIds, d \in OperationDecisions :
        procs' = [procs EXCEPT ![p] =
                    [pc |-> "called", parent |-> parent, decision |-> d,
                     seen |-> CtxValue(ctxs, parent, decisionCtxKey),
                     out |-> Background]]
    /\ UNCHANGED <<ctxs, call, ents, del, builders>>

\* the body of DecisionContext runs in goroutine p
Derive(p) ==
    /\ procs[p].pc = "called"
    /\ LET r == DecisionContext(ctxs, procs[p].parent, procs[p].decision)
       IN  /\ ctxs' = r.heap
           /\ procs' = [procs EXCEPT ![p].pc = "done", ![p].out = r.ctx]
    /\ UNCHANGED <<call, ents, del, builders>>

NextConc ==
    \/ \E p \in 1..MaxProcs : Go(p)
    \/ \E p \in 1..MaxProcs : Derive(p)

SpecConc == InitConc /\ [][NextConc]_vars

\* ---------------------------------------------------------------- GroupTag
NotFoundError(label) == [nil |-> FALSE, type |-> "NotFoundError", label |-> label]

NotLoadedError(edge) == [nil |-> FALSE, type |-> "NotLoadedError", edge |-> edge]

\* a nil pointer, and the entities an edge may point to
NilPtr == "nil"

TagPtrs == {NilPtr, "tag1", "tag2"}

GroupPtrs == {NilPtr, "group1"}

\* config.driver: a dialect driver, or the txDriver of a transaction that
\* the driver `drv` created
Drivers == [tx : BOOLEAN, drv : {"drv1", "drv2"}]

GroupTagEdges == [Tag : TagPtrs, Group : GroupPtrs, loadedTypes : [0..1 -> BOOLEAN]]

GroupTags == [driver : Drivers, Edges : GroupTagEdges]

\* TagOrErr testing the loaded flag before the value.
TagOrErrLoadedFirst(e) ==
    IF ~e.loadedTypes[0] THEN [val |-> NilPtr, err |-> NotLoadedError("tag")]
    ELSE IF e.Tag # NilPtr THEN [val |-> e.Tag, err |-> NilErr]
    ELSE [val |-> NilPtr, err |-> NotFoundError("tag")]

\* GroupTagEdges.TagOrErr
TagOrErr(e) ==
    IF e.Tag # NilPtr THEN [val |-> e.Tag, err |-> NilErr]
    ELSE IF e.loadedTypes[0] THEN [val |-> NilPtr, err |-> NotFoundError("tag")]
    ELSE [val |-> NilPtr, err |-> NotLoadedError("tag")]

\* GroupTagEdges.GroupOrErr
GroupOrErr(e) ==
    IF e.Group # NilPtr THEN [val |-> e.Group, err |-> NilErr]
    ELSE IF e.loadedTypes[1] THEN [val |-> NilPtr, err |-> NotFoundError("group")]
    ELSE [val |-> NilPtr, err |-> NotLoadedError("group")]

\* Unwrap handing back the entity still bound to the transaction.
UnwrapKeepsTx(heap, m) ==
    IF ~heap[m].driver.tx
    THEN [heap |-> heap, ret |-> 0, panic |-> "ent: GroupTag is not a transactional entity"]
    ELSE [heap |-> heap, ret |-> m, panic |-> ""]

\* GroupTag.Unwrap on the entity at address m
Unwrap(heap, m) ==
    LET _tx == heap[m].driver
        ok == _tx.tx
    IN  IF ~ok
        THEN [heap |-> heap, ret |-> 0,
              panic |-> "ent: GroupTag is not a transactional entity"]
        ELSE [heap |-> [heap EXCEPT ![m].driver = [tx |-> FALSE, drv |-> _tx.drv]],
              ret |-> m, panic |-> ""]

\* ---------------------------------------------------------------- DeleteOne
\* errors of the drivers
ErrDriver == ErrorsNew("driver: bad connection")

ErrRead == ErrorsNew("gremlin: unexpected response")

ErrUnique == ErrorsNew("constraint failed")

ConstraintError(err) == [nil |-> FALSE, type |-> "ConstraintError", wrap |-> err]

\* sqlgraph.IsConstraintError
IsConstraintError(err) == err = ErrUnique

Counts == 0..MaxAffected

\* what the gremlin driver does with the delete: Exec fails, or it answers
\* and the response reads as a count or fails to
GremlinOutcomes ==
    [exec : {ErrDriver}]
    \cup [exec : {NilErr}, n : Counts, err : {NilErr}]
    \cup [exec : {NilErr}, n : {0}, err : {ErrRead}]

\* what sqlgraph.DeleteNodes returns
SqlOutcomes == [affected : Counts, err : {NilErr, ErrDriver, ErrUnique}]

\* FileDelete.Exec with no hook registered: gremlinExec
FileDeleteExec(mutation, o) ==
    IF o.exec # NilErr
    THEN [n |-> 0, err |-> o.exec, mutation |-> mutation]
    ELSE [n |-> o.n, err |-> o.err, mutation |-> [mutation EXCEPT !.done = TRUE]]

\* DeviceDelete.Exec with no hook registered: sqlExec
DeviceDeleteExec(mutation, o) ==
    LET err == IF o.err # NilErr /\ IsConstraintError(o.err)
               THEN ConstraintError(o.err) ELSE o.err
    IN  [n |-> o.affected, err |-> err, mutation |-> [mutation EXCEPT !.done = TRUE]]

\* DeleteOne.Exec testing the count before the error.
DeleteOneExecCountFirst(r, label) ==
    IF r.n = 0 THEN NotFoundError(label)
    ELSE IF r.err # NilErr THEN r.err
    ELSE NilErr

\* FileDeleteOne.Exec / DeviceDeleteOne.Exec on the result r of the delete
DeleteOneExec(r, label) ==
    IF r.err # NilErr THEN r.err
    ELSE IF r.n = 0 THEN NotFoundError(label)
    ELSE NilErr

\* ---------------------------------------------------------------- CardCreate
\* A field of the mutation: not set, or set to a value.
None == [ok |-> FALSE, v |-> ""]

Some(v) == [ok |-> TRUE, v |-> v]

DefaultType == "card.DefaultType"

DefaultOwnerID == "card.DefaultOwnerID"

\* the mutation of a builder just made by Create()
NewCardMutation ==
    [type |-> None, number_hash |-> None, cvv_hash |-> None, expires_at |-> None,
     owner |-> None, payments |-> {}, id |-> None, done |-> FALSE]

\* the mutation as the privacy rules see it
CardMutationArg == [type |-> "Card", op |-> {"Create"}]

SetType(_c, v) == [_c EXCEPT !.mutation.type = Some(v)]

SetNumberHash(_c, v) == [_c EXCEPT !.mutation.number_hash = Some(v)]

SetCvvHash(_c, v) == [_c EXCEPT !.mutation.cvv_hash = Some(v)]

SetExpiresAt(_c, v) == [_c EXCEPT !.mutation.expires_at = Some(v)]

SetOwnerID(_c, v) == [_c EXCEPT !.mutation.owner = Some(v)]

AddPaymentIDs(_c, ids) == [_c EXCEPT !.mutation.payments = @ \cup ids]

\* A SetNillable* setter works on the builder at address a of the heap bs and
\* takes a pointer v: None is nil, Some(x) points to x. It returns the heap
\* and the address of the builder returned.

\* SetNillableType storing the zero value for a nil pointer.
SetNillableTypeZero(bs, a, v) ==
    [builders |-> [bs EXCEPT ![a] = SetType(bs[a], v.v)], ret |-> a]

\* CardCreate.SetNillableType
SetNillableType(bs, a, v) ==
    [builders |-> IF v # None THEN [bs EXCEPT ![a] = SetType(bs[a], v.v)] ELSE bs,
     ret |-> a]

\* CardCreate.SetNillableExpiresAt
SetNillableExpiresAt(bs, a, v) ==
    [builders |-> IF v # None THEN [bs EXCEPT ![a] = SetExpiresAt(bs[a], v.v)] ELSE bs,
     ret |-> a]

\* CardCreate.SetNillableOwnerID
SetNillableOwnerID(bs, a, v) ==
    [builders |-> IF v # None THEN [bs EXCEPT ![a] = SetOwnerID(bs[a], v.v)] ELSE bs,
     ret |-> a]

\* mutation.OwnerIDs(): the owner edge holds the id set by SetOwnerID
OwnerIDs(m) == IF m.owner.ok THEN <<m.owner.v>> ELSE <<>>

\* defaults writing the schema defaults over whatever is there.
defaultsOverride(_c) == SetOwnerID(SetType(_c, DefaultType), DefaultOwnerID)

\* CardCreate.defaults
defaults(_c) ==
    LET c1 == IF ~_c.mutation.type.ok THEN SetType(_c, DefaultType) ELSE _c
    IN  IF ~c1.mutation.owner.ok THEN SetOwnerID(c1, DefaultOwnerID) ELSE c1

ValidationError(name) == [nil |-> FALSE, type |-> "ValidationError", Name |-> name]

\* CardCreate.check
check(_c) ==
    IF ~_c.mutation.type.ok THEN ValidationError("type")
    ELSE IF ~_c.mutation.number_hash.ok THEN ValidationError("number_hash")
    ELSE IF ~_c.mutation.cvv_hash.ok THEN ValidationError("cvv_hash")
    ELSE IF ~_c.mutation.owner.ok THEN ValidationError("owner_id")
    ELSE IF Len(OwnerIDs(_c.mutation)) = 0 THEN ValidationError("owner")
    ELSE NilErr

\* CardCreate.createSpec: the fields and edges that are set
createSpec(_c) ==
    [type |-> _c.mutation.type, number_hash |-> _c.mutation.number_hash,
     cvv_hash |-> _c.mutation.cvv_hash, expires_at |-> _c.mutation.expires_at,
     owner |-> OwnerIDs(_c.mutation), payments |-> _c.mutation.payments]

\* what sqlgraph.CreateNode / BatchCreate do: fail, or store and assign ids
CreateOutcomes == [err : {ErrDriver, ErrUnique}] \cup {[err |-> NilErr, id |-> "id1"]}

StorageError(err) == IF IsConstraintError(err) THEN ConstraintError(err) ELSE err

\* sqlSave creating the node before it validates the builder.
sqlSaveCreateFirst(_c, o) ==
    LET err == check(_c)
        _spec == createSpec(_c)
        made == <<[op |-> "CreateNode", specs |-> <<_spec>>]>>
    IN  IF o.err # NilErr
        THEN [nodes |-> <<>>, err |-> StorageError(o.err), builder |-> _c, stored |-> made]
        ELSE IF err # NilErr
        THEN [nodes |-> <<>>, err |-> err, builder |-> _c, stored |-> made]
        ELSE [nodes |-> <<[spec |-> _spec, ID |-> o.id]>>, err |-> NilErr,
              builder |-> [_c EXCEPT !.mutation.id = Some(o.id), !.mutation.done = TRUE],
              stored |-> made]

\* CardCreate.sqlSave. The result holds the node and error returned, the
\* builder as the call leaves it, and the calls made on the storage layer.
sqlSave(_c, o) ==
    LET err == check(_c)
        _spec == createSpec(_c)
        made == <<[op |-> "CreateNode", specs |-> <<_spec>>]>>
    IN  IF err # NilErr
        THEN [nodes |-> <<>>, err |-> err, builder |-> _c, stored |-> <<>>]
        ELSE IF o.err # NilErr
        THEN [nodes |-> <<>>, err |-> StorageError(o.err), builder |-> _c, stored |-> made]
        ELSE [nodes |-> <<[spec |-> _spec, ID |-> o.id]>>, err |-> NilErr,
              builder |-> [_c EXCEPT !.mutation.id = Some(o.id), !.mutation.done = TRUE],
              stored |-> made]

\* The hook that makes the privacy policy a gate: it evaluates the policy on
\* the mutation and calls the next mutator only if the result is nil.
GateHook(policy) == [kind |-> "gate", policy |-> policy]

\* The hooks from the i-th on, outermost first, down to the first that does
\* not call the next mutator: its error (nil if all call on), and for each
\* hook that ran the mutation it saw.
RECURSIVE RunHooks(_, _, _, _, _)
RunHooks(heap, hooks, i, c, mutation) ==
    IF i > Len(hooks) THEN [err |-> NilErr, gates |-> <<>>]
    ELSE LET r == MutationPolicyEvalMutation(heap, hooks[i].policy, c, CardMutationArg)
             seen == <<[saw |-> mutation, err |-> r.ret]>>
         IN  IF r.ret # NilErr THEN [err |-> r.ret, gates |-> seen]
             ELSE LET rest == RunHooks(heap, hooks, i + 1, c, mutation)
                  IN  [err |-> rest.err, gates |-> seen \o rest.gates]

\* withHooks running the save step first and the hooks after it.
withHooksAfter(heap, c, _c, o) ==
    LET r == sqlSave(_c, o)
        h == RunHooks(heap, _c.hooks, 1, c, r.builder.mutation)
    IN  IF h.err # NilErr
        THEN [nodes |-> <<>>, err |-> h.err, builder |-> r.builder,
              stored |-> r.stored, gates |-> h.gates]
        ELSE [nodes |-> r.nodes, err |-> r.err, builder |-> r.builder,
              stored |-> r.stored, gates |-> h.gates]

\* withHooks(ctx, _c.sqlSave, _c.mutation, _c.hooks): the hooks wrap the save
\* step, the first hook outermost.
withHooks(heap, c, _c, o) ==
    LET h == RunHooks(heap, _c.hooks, 1, c, _c.mutation)
        r == sqlSave(_c, o)
    IN  IF h.err # NilErr
        THEN [nodes |-> <<>>, err |-> h.err, builder |-> _c,
              stored |-> <<>>, gates |-> h.gates]
        ELSE [nodes |-> r.nodes, err |-> r.err, builder |-> r.builder,
              stored |-> r.stored, gates |-> h.gates]

\* CardCreate.Save
CardCreateSave(heap, c, _c, o) == withHooks(heap, c, defaults(_c), o)

\* What happens inside CardCreateBulk.Save, in order: a hook of builder i
\* runs, builder i is checked, its create spec is built, and BatchCreate is
\* called from the function of builder i.
Ev(kind, i) == [ev |-> kind, i |-> i]

\* A hook that calls the mutator it wraps, and calls it once more when the
\* first call returned an error.
RetryHook == [kind |-> "retry", policy |-> <<>>]

\* sqlgraph.BatchCreate on the specs of all the builders, called from the
\* function of builder i
BatchCreate(bs, i, o) ==
    [err |-> IF o.err # NilErr THEN StorageError(o.err) ELSE NilErr,
     builders |-> bs,
     stored |-> <<[op |-> "BatchCreate", specs |-> [j \in 1..Len(bs) |-> createSpec(bs[j])]]>>,
     gates |-> <<>>,
     trace |-> <<Ev("BatchCreate", i)>>]

\* a mutator returning err before it reached the next one
BulkFail(bs, err, gates, trace) ==
    [err |-> err, builders |-> bs, stored |-> <<>>, gates |-> gates, trace |-> trace]

\* `next` with the hooks and events that ran before it
BulkAfter(gates, trace, next) ==
    [next EXCEPT !.gates = gates \o @, !.trace = trace \o @]

\* The end of the function of builder i, once the next mutator (or
\* BatchCreate) returned `next`: its error, or the mutation marked done.
BulkDone(i, o, next) ==
    [next EXCEPT !.builders = IF next.err # NilErr THEN @
                              ELSE [@ EXCEPT ![i].mutation.id = Some(o.id),
                                             ![i].mutation.done = TRUE]]

RECURSIVE BulkMutate(_, _, _, _, _, _)

\* The function of builder i calling BatchCreate itself, whatever its index.
BulkInnerNoChain(heap, c, bs, i, o) ==
    IF check(bs[i]) # NilErr
    THEN BulkFail(bs, check(bs[i]), <<>>, <<Ev("check", i)>>)
    ELSE BulkAfter(<<>>, <<Ev("check", i), Ev("createSpec", i)>>,
                   BulkDone(i, o, BatchCreate(bs, i, o)))

\* The function of builder i: check, createSpec, then the mutator of builder
\* i+1 or, in the last builder, BatchCreate.
BulkInner(heap, c, bs, i, o) ==
    IF check(bs[i]) # NilErr
    THEN BulkFail(bs, check(bs[i]), <<>>, <<Ev("check", i)>>)
    ELSE BulkAfter(<<>>, <<Ev("check", i), Ev("createSpec", i)>>,
                   BulkDone(i, o, IF i < Len(bs)
                                  THEN BulkMutate(heap, c, bs, i + 1, 1, o)
                                  ELSE BatchCreate(bs, i, o)))

\* a gate hook of builder i that answered err, around the mutator `next`
BulkGate(bs, i, err, next) ==
    IF err # NilErr
    THEN BulkFail(bs, err, <<[saw |-> bs[i].mutation, err |-> err]>>, <<Ev("hook", i)>>)
    ELSE BulkAfter(<<[saw |-> bs[i].mutation, err |-> err]>>, <<Ev("hook", i)>>, next)

\* a retry hook of builder i: the first call of the mutator it wraps, and
\* the second if the first failed
BulkRetry(bs, i, first, second) ==
    BulkAfter(<<[saw |-> bs[i].mutation, err |-> NilErr]>>, <<Ev("hook", i)>>,
              IF first.err = NilErr THEN first
              ELSE [BulkAfter(first.gates, first.trace, second)
                        EXCEPT !.stored = first.stored \o @])

\* The mutator of builder i in CardCreateBulk.Save from its k-th hook on:
\* the hooks wrap the builder's function, the first hook outermost.
BulkMutate(heap, c, bs, i, k, o) ==
    IF k > Len(bs[i].hooks) THEN BulkInner(heap, c, bs, i, o)
    ELSE IF bs[i].hooks[k].kind = "gate"
    THEN BulkGate(bs, i,
                  MutationPolicyEvalMutation(heap, bs[i].hooks[k].policy, c,
                                             CardMutationArg).ret,
                  BulkMutate(heap, c, bs, i, k + 1, o))
    ELSE BulkRetry(bs, i, BulkMutate(heap, c, bs, i, k + 1, o),
                   BulkMutate(heap, c, bs, i, k + 1, o))

\* What CardCreateBulk.Save returns once the first mutator returned r.
BulkResult(bs, o, r) ==
    [nodes |-> IF r.err # NilErr THEN <<>>
               ELSE [i \in 1..Len(bs) |-> [spec |-> createSpec(bs[i]), ID |-> o.id]],
     err |-> r.err, builders |-> r.builders, stored |-> r.stored, gates |-> r.gates,
     trace |-> r.trace]

\* CardCreateBulk.Save on the bulk builder [err, builders]
CardCreateBulkSave(heap, c, bulk, o) ==
    IF bulk.err # NilErr
    THEN [nodes |-> <<>>, err |-> bulk.err, builders |-> bulk.builders,
          stored |-> <<>>, gates |-> <<>>, trace |-> <<>>]
    ELSE IF Len(bulk.builders) = 0
    THEN [nodes |-> <<>>, err |-> NilErr, builders |-> bulk.builders,
          stored |-> <<>>, gates |-> <<>>, trace |-> <<>>]
    ELSE BulkResult([i \in 1..Len(bulk.builders) |-> defaults(bulk.builders[i])], o,
                    BulkMutate(heap, c,
                               [i \in 1..Len(bulk.builders) |-> defaults(bulk.builders[i])],
                               1, 1, o))

\* the values a caller sets
TypeValues == {DefaultType, "visa"}

OwnerValues == {DefaultOwnerID, "u7"}

FuncRule(d) == [kind |-> "func", ret |-> d]

\* the policies behind a gate: all rules skip; a rule allows; a rule denies;
\* a rule fails with an error of its own
GatePolicies ==
    {<<FuncRule(Skip)>>,
     <<FuncRule(Skip), FuncRule(Allow)>>,
     <<FuncRule(Skip), FuncRule(Denyf("m1", <<>>))>>,
     <<FuncRule(ErrOther)>>}

\* the hooks of a builder: none, one gate, or a gate that passes before one
\* that denies
HookLists ==
    {<<>>}
    \cup {<<GateHook(p)>> : p \in GatePolicies}
    \cup {<<GateHook(<<FuncRule(Skip)>>),
            GateHook(<<FuncRule(Skip), FuncRule(Denyf("m1", <<>>))>>)>>}

\* a builder just made by Create(), with the hooks of its client
NewCardCreate(hooks) == [mutation |-> NewCardMutation, hooks |-> hooks]

\* builders as callers leave them before Save: nothing set; the two hashes
\* set; every field set
GateBuilders ==
    {NewCardCreate(h) : h \in HookLists}
    \cup {SetCvvHash(SetNumberHash(NewCardCreate(h), "h1"), "h2") : h \in HookLists}
    \cup {SetOwnerID(SetType(SetCvvHash(SetNumberHash(NewCardCreate(h), "h1"), "h2"),
                              "visa"), "u7") : h \in HookLists}

BuilderLists == SeqsUpTo(GateBuilders, MaxBuilders)

\* the error a CardCreateBulk carries from its construction
BulkErrs == {NilErr, ErrorsNew("ent: bulk input is not a slice")}

BuilderArg(i) == [type |-> "CardCreate", addr |-> i]

\* a setter of builder 1, which returns the builder
Setter(name, _c) ==
    /\ Idle
    /\ builders' = [builders EXCEPT ![1] = _c]
    /\ call' = [NoCall EXCEPT !.op = name, !.arg = BuilderArg(1)]
    /\ UNCHANGED <<ctxs, procs, ents, del>>

SetTypeCall == \E v \in TypeValues : Setter("SetType", SetType(builders[1], v))

SetNumberHashCall == Setter("SetNumberHash", SetNumberHash(builders[1], "h1"))

SetCvvHashCall == Setter("SetCvvHash", SetCvvHash(builders[1], "h2"))

SetExpiresAtCall == Setter("SetExpiresAt", SetExpiresAt(builders[1], "t1"))

SetOwnerIDCall == \E v \in OwnerValues : Setter("SetOwnerID", SetOwnerID(builders[1], v))

AddPaymentIDsCall == Setter("AddPaymentIDs", AddPaymentIDs(builders[1], {"p1"}))

\* the pointers a caller passes: nil, or the address of a value
Pointers(values) == {None} \cup {Some(x) : x \in values}

\* a SetNillable* setter called on builder a with pointer v, leaving r
NillableSetter(name, a, v, r) ==
    /\ builders' = r.builders
    /\ call' = [NoCall EXCEPT !.op = name, !.arg = BuilderArg(a), !.ptr = v,
                              !.out = r.ret]

SetNillableTypeCall ==
    /\ Idle
    /\ \E a \in 1..Len(builders), v \in Pointers(TypeValues) :
        NillableSetter("SetNillableType", a, v, SetNillableType(builders, a, v))
    /\ UNCHANGED <<ctxs, procs, ents, del>>

SetNillableExpiresAtCall ==
    /\ Idle
    /\ \E a \in 1..Len(builders), v \in Pointers({"t1", "t2"}) :
        NillableSetter("SetNillableExpiresAt", a, v, SetNillableExpiresAt(builders, a, v))
    /\ UNCHANGED <<ctxs, procs, ents, del>>

SetNillableOwnerIDCall ==
    /\ Idle
    /\ \E a \in 1..Len(builders), v \in Pointers(OwnerValues) :
        NillableSetter("SetNillableOwnerID", a, v, SetNillableOwnerID(builders, a, v))
    /\ UNCHANGED <<ctxs, procs, ents, del>>

\* builders[i].Save(c)
SaveCall ==
    /\ Idle
    /\ \E i \in 1..Len(builders), c \in Latest, o \in CreateOutcomes :
        LET r == CardCreateSave(ctxs, c, builders[i], o)
        IN  /\ builders' = [builders EXCEPT ![i] = r.builder]
            /\ call' = [NoCall EXCEPT !.op = "CardCreate.Save", !.ctx = c,
                                      !.arg = BuilderArg(i), !.ret = r.err,
                                      !.nodes = r.nodes, !.stored = r.stored,
                                      !.gates = r.gates]
    /\ UNCHANGED <<ctxs, procs, ents, del>>

\* builders[i].sqlSave(c), the save step called with no hook around it
SqlSaveCall ==
    /\ Idle
    /\ \E i \in 1..Len(builders), c \in Latest, o \in CreateOutcomes :
        LET r == sqlSave(builders[i], o)
        IN  /\ builders' = [builders EXCEPT ![i] = r.builder]
            /\ call' = [NoCall EXCEPT !.op = "CardCreate.sqlSave", !.ctx = c,
                                      !.arg = BuilderArg(i), !.ret = r.err,
                                      !.nodes = r.nodes, !.stored = r.stored]
    /\ UNCHANGED <<ctxs, procs, ents, del>>

\* CreateBulk(builders...).Save(c)
BulkSaveCall ==
    /\ Idle
    /\ \E err \in BulkErrs, c \in Latest, o \in CreateOutcomes :
        LET r == CardCreateBulkSave(ctxs, c, [err |-> err, builders |-> builders], o)
        IN  /\ builders' = r.builders
            /\ call' = [NoCall EXCEPT !.op = "CardCreateBulk.Save", !.ctx = c,
                                      !.decision = err, !.ret = r.err,
                                      !.nodes = r.nodes, !.stored = r.stored,
                                      !.gates = r.gates, !.trace = r.trace]
    /\ UNCHANGED <<ctxs, procs, ents, del>>

\* one builder just made by Create()
InitCard ==
    /\ ctxs = <<>>
    /\ call = NoCall
    /\ procs = <<>>
    /\ ents = <<>>
    /\ del = NoDeletes
    /\ builders \in {<<NewCardCreate(h)>> : h \in HookLists}

\* A caller sets fields of the builder and saves it.
NextCard ==
    \/ Return
    \/ SetTypeCall
    \/ SetNumberHashCall
    \/ SetCvvHashCall
    \/ SetExpiresAtCall
    \/ SetOwnerIDCall
    \/ AddPaymentIDsCall
    \/ SaveCall

SpecCard == InitCard /\ [][NextCard]_vars

\* the hooks of a builder of a bulk: none, a gate that passes, a gate that
\* denies, a retry hook, a retry hook around a gate that passes
BulkHookLists ==
    {<<>>,
     <<GateHook(<<FuncRule(Skip)>>)>>,
     <<GateHook(<<FuncRule(Skip), FuncRule(Denyf("m1", <<>>))>>)>>,
     <<RetryHook>>,
     <<RetryHook, GateHook(<<FuncRule(Skip)>>)>>}

\* builders with nothing set, and with the two hashes set
BulkBuilders ==
    {NewCardCreate(h) : h \in BulkHookLists}
    \cup {SetCvvHash(SetNumberHash(NewCardCreate(h), "h1"), "h2") : h \in BulkHookLists}

InitBulk ==
    /\ ctxs = <<>>
    /\ call = NoCall
    /\ procs = <<>>
    /\ ents = <<>>
    /\ del = NoDeletes
    /\ builders \in SeqsUpTo(BulkBuilders, MaxBuilders)

\* Builders behind hooks of any kind, saved in bulk.
NextBulk ==
    \/ Return
    \/ BulkSaveCall

SpecBulk == InitBulk /\ [][NextBulk]_vars

\* A caller sets fields of the builder and runs the save step on it.
NextSqlSave ==
    \/ Return
    \/ SetTypeCall
    \/ SetNumberHashCall
    \/ SetCvvHashCall
    \/ SetExpiresAtCall
    \/ SetOwnerIDCall
    \/ AddPaymentIDsCall
    \/ SqlSaveCall

SpecSqlSave == InitCard /\ [][NextSqlSave]_vars

\* one or two builders just made by Create()
InitSetters ==
    /\ ctxs = <<>>
    /\ call = NoCall
    /\ procs = <<>>
    /\ ents = <<>>
    /\ del = NoDeletes
    /\ builders \in {<<NewCardCreate(<<>>)>>, <<NewCardCreate(<<>>), NewCardCreate(<<>>)>>}

\* A caller sets fields through the plain and the nillable setters.
NextSetters ==
    \/ Return
    \/ SetNumberHashCall
    \/ SetTypeCall
    \/ SetExpiresAtCall
    \/ SetOwnerIDCall
    \/ SetNillableTypeCall
    \/ SetNillableExpiresAtCall
    \/ SetNillableOwnerIDCall

SpecSetters == InitSetters /\ [][NextSetters]_vars

\* the builders of a bulk, as their callers prepared them
InitGate ==
    /\ ctxs = <<>>
    /\ call = NoCall
    /\ procs = <<>>
    /\ ents = <<>>
    /\ del = NoDeletes
    /\ builders \in BuilderLists

\* Builders behind privacy gates, saved one by one and in bulk.
NextGate ==
    \/ Return
    \/ SaveCall
    \/ BulkSaveCall

SpecGate == InitGate /\ [][NextGate]_vars

\* ---------------------------------------------------------------- generated code
\* one GroupTag entity, as a query or a transaction returned it
InitGen ==
    /\ ctxs = <<>>
    /\ call = NoCall
    /\ procs = <<>>
    /\ ents \in {<<e>> : e \in GroupTags}
    /\ del = NoDeletes
    /\ builders = <<>>

EntArg(m) == [type |-> "GroupTag", addr |-> m]

\* m.Edges.TagOrErr()
TagOrErrCall ==
    /\ Idle
    /\ \E m \in 1..Len(ents) :
        LET r == TagOrErr(ents[m].Edges)
        IN  call' = [NoCall EXCEPT !.op = "TagOrErr", !.arg = EntArg(m),
                                  !.val = r.val, !.ret = r.err]
    /\ UNCHANGED <<ctxs, client>>

\* m.Edges.GroupOrErr()
GroupOrErrCall ==
    /\ Idle
    /\ \E m \in 1..Len(ents) :
        LET r == GroupOrErr(ents[m].Edges)
        IN  call' = [NoCall EXCEPT !.op = "GroupOrErr", !.arg = EntArg(m),
                                  !.val = r.val, !.ret = r.err]
    /\ UNCHANGED <<ctxs, client>>

\* m.Unwrap()
UnwrapCall ==
    /\ Idle
    /\ \E m \in 1..Len(ents) :
        LET r == Unwrap(ents, m)
        IN  /\ ents' = r.heap
            /\ call' = [NoCall EXCEPT !.op = "Unwrap", !.arg = EntArg(m),
                                      !.out = r.ret, !.panic = r.panic]
    /\ UNCHANGED <<ctxs, procs, del, builders>>

\* FileDeleteOne.Exec(ctx)
FileDeleteOneExecCall ==
    /\ Idle
    /\ \E o \in GremlinOutcomes :
        LET r == FileDeleteExec(del.File, o)
        IN  /\ del' = [del EXCEPT !.File = r.mutation]
            /\ call' = [NoCall EXCEPT !.op = "FileDeleteOne.Exec",
                                      !.inner = [n |-> r.n, err |-> r.err],
                                      !.ret = DeleteOneExec(r, "file")]
    /\ UNCHANGED <<ctxs, procs, ents, builders>>

\* DeviceDeleteOne.Exec(ctx)
DeviceDeleteOneExecCall ==
    /\ Idle
    /\ \E o \in SqlOutcomes :
        LET r == DeviceDeleteExec(del.Device, o)
        IN  /\ del' = [del EXCEPT !.Device = r.mutation]
            /\ call' = [NoCall EXCEPT !.op = "DeviceDeleteOne.Exec",
                                      !.inner = [n |-> r.n, err |-> r.err],
                                      !.ret = DeleteOneExec(r, "device")]
    /\ UNCHANGED <<ctxs, procs, ents, builders>>

\* The generated entity and delete builders, called in any order.
NextGen ==
    \/ Return
    \/ TagOrErrCall
    \/ GroupOrErrCall
    \/ UnwrapCall
    \/ FileDeleteOneExecCall
    \/ DeviceDeleteOneExecCall

SpecGen == InitGen /\ [][NextGen]_vars

\* ---------------------------------------------------------------- specifications
\* The decision contexts: any context derived from any other, and read back.
NextCtx ==
    \/ Return
    \/ DecisionContextCall(CtxIds, Decisions)
    \/ DecisionFromContextCall

SpecCtx == Init /\ [][NextCtx]_vars

\* The pipeline: an operation threads its context through DecisionContext
\* (ctx = DecisionContext(ctx, d)) and evaluates policies of plain rules
\* under the context it holds. A plain rule is a function of the user, whose
\* result is part of the policy chosen, so one query and one mutation stand
\* for all.
Next ==
    \/ Return
    \/ DecisionContextCall(Latest, OperationDecisions)
    \/ EvalQueryCall(FuncPolicies, Latest, {[type |-> "Card"]})
    \/ EvalMutationCall(FuncPolicies, Latest, {[type |-> "Card", op |-> {"Create"}]})

Spec == Init /\ [][Next]_vars

\* The rule adapters: single rules, and policies made of them.
NextRules ==
    \/ Return
    \/ DecisionContextCall(Latest, OperationDecisions)
    \/ RuleEvalQueryCall
    \/ RuleEvalMutationCall
    \/ EvalQueryCall(QueryAdapterPolicies, Latest, Queries)
    \/ EvalMutationCall(MutationAdapterPolicies, Latest, Mutations)

SpecRules == Init /\ [][NextRules]_vars

\* A combined Policy, asked about queries and about mutations.
NextPolicy ==
    \/ Return
    \/ DecisionContextCall(Latest, OperationDecisions)
    \/ PolicyEvalQueryCall
    \/ PolicyEvalMutationCall

SpecPolicy == Init /\ [][NextPolicy]_vars

\* The pipeline over decisions wrapped in several layers, as rule results and
\* as decisions recorded in the context.
NextWrap ==
    \/ Return
    \/ DecisionContextCall(Latest, WrapDecisions)
    \/ DecisionFromContextCall
    \/ EvalQueryCall(WrapPolicies, Latest, {[type |-> "Card"]})
    \/ EvalMutationCall(WrapPolicies, Latest, {[type |-> "Card", op |-> {"Create"}]})

SpecWrap == Init /\ [][NextWrap]_vars

\* The pipeline over errors that match more than one sentinel, as rule
\* results and as decisions given to DecisionContext.
NextJoined ==
    \/ Return
    \/ DecisionContextCall(Latest, Sentinels \cup JoinedDecisions)
    \/ DecisionFromContextCall
    \/ EvalQueryCall(JoinedPolicies, Latest, {[type |-> "Card"]})
    \/ EvalMutationCall(JoinedPolicies, Latest, {[type |-> "Card", op |-> {"Create"}]})

SpecJoined == Init /\ [][NextJoined]_vars

\* Operations that each record a sequence of decisions in their context.
NextChain ==
    \/ Return
    \/ DecisionContextChainCall

SpecChain == Init /\ [][NextChain]_vars

\* ---------------------------------------------------------------- properties
IsEval == call.op \in {"EvalQuery", "EvalMutation"}

\* the decision the context of the call carries, if any
Carried == CtxValue(ctxs, call.ctx, decisionCtxKey)

\* How the pipeline reads a rule's result: nil and whatever matches Skip let
\* it continue; of the rest, what matches Allow is an Allow, all else a denial.
Continues(d) == d = NilErr \/ ErrorsIs(d, Skip)

ReturnsSkip(d) == ErrorsIs(d, Skip)

ReturnsAllow(d) == ~Continues(d) /\ ErrorsIs(d, Allow)

ReturnsDenyOrError(d) == ~Continues(d) /\ ~ErrorsIs(d, Allow)

\* the result of the i-th rule of the policy of the call (a plain function)
Result(i) == call.policy[i].ret

\* rule k is the first one whose result does not let the pipeline continue
FirstDefinitive(k) ==
    /\ k \in 1..Len(call.policy)
    /\ ~Continues(Result(k))
    /\ \A j \in 1..(k - 1) : Continues(Result(j))

\* rules 1..k were invoked, once each and in order, and no other
InvokedUpTo(k) == call.log = [i \in 1..k |-> <<i>>]

\* C1: with no cached decision, a policy with no rule or whose rules all
\* return Skip (plain or wrapped) evaluates to success (nil).
C1_FailOpen ==
    (/\ IsEval
     /\ ~Carried.found
     /\ \A i \in 1..Len(call.policy) : ReturnsSkip(Result(i)))
    => call.ret = NilErr

C1_Witness ==
    /\ call.op = "EvalMutation"
    /\ ~Carried.found
    /\ Len(call.policy) = MaxRules
    /\ \A i \in 1..Len(call.policy) : ReturnsSkip(Result(i))
    /\ \E i \in 1..Len(call.policy) : Result(i) # Skip
    /\ call.ret = NilErr

\* C2: with no cached decision, the first rule that returns Allow ends the
\* evaluation with success: the rules up to it ran once each, in order, and
\* no rule after it was invoked.
C2_AllowShortCircuits ==
    (IsEval /\ ~Carried.found) =>
        \A k \in 1..Len(call.policy) :
            (FirstDefinitive(k) /\ ReturnsAllow(Result(k)))
            => (call.ret = NilErr /\ InvokedUpTo(k))

C2_Witness ==
    /\ call.op = "EvalQuery"
    /\ ~Carried.found
    /\ Len(call.policy) = 3
    /\ Result(1) = Skip
    /\ Result(2) = Allowf("m1", <<>>)
    /\ Result(3) = Deny
    /\ call.ret = NilErr
    /\ call.log = <<<<1>>, <<2>>>>

\* C3: with no cached decision, the first rule that returns Deny or an error
\* that is none of the three decisions ends the evaluation: no later rule is
\* invoked and the pipeline returns exactly that rule's error, message included.
C3_DenyShortCircuits ==
    (IsEval /\ ~Carried.found) =>
        \A k \in 1..Len(call.policy) :
            (FirstDefinitive(k) /\ ReturnsDenyOrError(Result(k)))
            => (call.ret = Result(k) /\ InvokedUpTo(k))

\* the scenario [Skip, Deny("m1"), Allow], and one ending on a foreign error
C3_Witness ==
    /\ call.op = "EvalQuery"
    /\ ~Carried.found
    /\ Len(call.policy) = 3
    /\ Result(1) = Skip
    /\ Result(2) = Denyf("m1", <<>>)
    /\ Result(3) = Allow
    /\ call.ret = Denyf("m1", <<>>)
    /\ call.log = <<<<1>>, <<2>>>>

\* C4: a decision already carried by the context is returned and no rule is
\* invoked, whatever the policy: a carried Allow gives success (nil), a
\* carried Deny (or other error) gives that same value.
C4_CachedDecisionWins ==
    (IsEval /\ Carried.found) =>
        /\ call.log = <<>>
        /\ ErrorsIs(Carried.val, Allow) => call.ret = NilErr
        /\ ~ErrorsIs(Carried.val, Allow) => call.ret = Carried.val

C4_Witness ==
    /\ call.op = "EvalQuery"
    /\ Carried.found
    /\ Carried.val = Denyf("m1", <<>>)
    /\ Len(call.policy) = 2
    /\ Result(1) = Allow
    /\ call.ret = Denyf("m1", <<>>)
    /\ call.log = <<>>

\* C5: whatever the policy, the rule results and the chain of DecisionContext
\* calls that built the context, an evaluation never returns Skip nor an
\* error wrapping Skip.
C5_NeverReturnsSkip == IsEval => ~ErrorsIs(call.ret, Skip)

C5_Witness ==
    /\ IsEval
    /\ call.ctx # Background
    /\ ctxs[call.ctx].parent # Background
    /\ \E i \in 1..Len(call.policy) : ReturnsSkip(Result(i))
    /\ call.ret # NilErr

\* C6 as stated: a context is derived only for a decision that is Allow or
\* Deny, plain or wrapped.
C6_OnlyAllowOrDenyStored ==
    (call.op = "DecisionContext" /\ call.out # call.ctx) =>
        (ErrorsIs(call.decision, Allow) \/ ErrorsIs(call.decision, Deny))

\* C6, amended: DecisionContext never stores nil or Skip; it derives a context
\* carrying d exactly when d is non-nil and does not match Skip, which
\* includes an error that is neither Allow nor Deny.
C6_StoresAllButSkip ==
    /\ \A n \in 1..Len(ctxs) : ctxs[n].val # NilErr /\ ~ErrorsIs(ctxs[n].val, Skip)
    /\ call.op = "DecisionContext" =>
        /\ call.out # call.ctx <=> ~Continues(call.decision)
        /\ call.out # call.ctx =>
            /\ call.out = Len(ctxs)
            /\ ctxs[call.out] =
                [parent |-> call.ctx, key |-> decisionCtxKey, val |-> call.decision]

C6_Witness ==
    /\ call.op = "DecisionContext"
    /\ call.decision = ErrOther
    /\ call.out # call.ctx
    /\ Carried.found
    /\ CtxValue(ctxs, call.out, decisionCtxKey).val = ErrOther

\* C7: a cached decision is read back normalised: a cached Allow, plain or
\* wrapped, as "present, nil"; a cached Deny as exactly the stored error.
C7_ReadBackNormalised ==
    (call.op = "decisionFromContext" /\ Carried.found) =>
        /\ call.ok
        /\ ErrorsIs(Carried.val, Allow) => call.ret = NilErr
        /\ (ErrorsIs(Carried.val, Deny) /\ ~ErrorsIs(Carried.val, Allow))
            => call.ret = Carried.val

C7_Witness ==
    /\ call.op = "decisionFromContext"
    /\ Carried.found
    /\ Carried.val = Allowf("m1", <<>>)
    /\ call.ok
    /\ call.ret = NilErr

\* the decision a wrapped plain or fixed rule returns
WrappedDecision(r) == IF r.kind = "fixed" THEN r.decision ELSE r.ret

\* C8: OnMutationOperation(rule, op) on a mutation whose operation does not
\* match op returns Skip without invoking rule; on a matching one it invokes
\* rule once and returns its decision unchanged.
C8_OnMutationOperation ==
    (/\ call.op = "RuleEvalMutation"
     /\ call.rule.kind = "onop"
     /\ call.rule.rule.kind \in {"func", "fixed"}) =>
        IF call.arg.op \cap call.rule.op = {}
        THEN call.ret = Skip /\ call.log = <<<<1>>>>
        ELSE /\ call.ret = WrappedDecision(call.rule.rule)
             /\ call.log = <<<<1>>, <<1, 1>>>>

C8_Witness ==
    /\ call.op = "RuleEvalMutation"
    /\ call.rule.kind = "onop"
    /\ call.rule.op = {"Delete", "Update"}
    /\ call.arg.op = {"Create"}
    /\ call.rule.rule = AlwaysAllowRule
    /\ call.ret = Skip
    /\ call.log = <<<<1>>>>

\* C9: a node rule adapter given a query or mutation of another entity type
\* returns a decision matching Deny without calling the user function; given
\* its own type it calls the function once and returns its result unchanged.
C9_NodeAdapter ==
    (call.op \in {"RuleEvalQuery", "RuleEvalMutation"} /\ call.rule.kind = "node") =>
        IF call.arg.type # call.rule.type
        THEN ErrorsIs(call.ret, Deny) /\ call.log = <<<<1>>>>
        ELSE call.ret = call.rule.ret /\ call.log = <<<<1>>, <<1, 1>>>>

C9_Witness ==
    /\ call.op = "RuleEvalQuery"
    /\ call.rule = [kind |-> "node", type |-> "Card", ret |-> Allow]
    /\ call.arg.type = "User"
    /\ ErrorsIs(call.ret, Deny)
    /\ call.log = <<<<1>>>>

\* C10: AlwaysDenyRule() yields Deny and AlwaysAllowRule() yields Allow for
\* every query and mutation; with no cached decision the policy
\* [AlwaysDenyRule()] denies every operation and [AlwaysAllowRule()] lets
\* every operation succeed.
C10_FixedRules ==
    /\ (call.op \in {"RuleEvalQuery", "RuleEvalMutation"} /\ call.rule = AlwaysDenyRule)
        => call.ret = Deny
    /\ (call.op \in {"RuleEvalQuery", "RuleEvalMutation"} /\ call.rule = AlwaysAllowRule)
        => call.ret = Allow
    /\ (IsEval /\ ~Carried.found /\ call.policy = <<AlwaysDenyRule>>)
        => call.ret = Deny
    /\ (IsEval /\ ~Carried.found /\ call.policy = <<AlwaysAllowRule>>)
        => call.ret = NilErr

C10_Witness ==
    /\ call.op = "EvalMutation"
    /\ ~Carried.found
    /\ call.policy = <<AlwaysDenyRule>>
    /\ call.arg = [type |-> "User", op |-> {"Delete"}]
    /\ call.ret = Deny

\* the plain sentinel a wrapped decision wraps (nil for nil)
PlainOf(d) == IF d.nil THEN d ELSE ErrorsNew(CHOOSE r \in d.roots : TRUE)

\* the contexts and the policy of the call with every decision replaced by
\* the plain sentinel it wraps
PlainCtxs == [n \in 1..Len(ctxs) |-> [ctxs[n] EXCEPT !.val = PlainOf(@)]]

PlainPolicy == [i \in 1..Len(call.policy) |-> [call.policy[i] EXCEPT !.ret = PlainOf(@)]]

\* C11: a decision made by Allowf, Denyf or Skipf, wrapped again any number
\* of times, is classified by EvalQuery, EvalMutation, DecisionContext and
\* decisionFromContext as the plain sentinel it wraps: the same rules run, the
\* same contexts are derived, and the results agree up to the wrapping.
C11_WrappingPreservesTag ==
    /\ call.op = "EvalQuery" =>
        LET plain == QueryPolicyEvalQuery(PlainCtxs, PlainPolicy, call.ctx, call.arg)
        IN  call.log = plain.log /\ PlainOf(call.ret) = plain.ret
    /\ call.op = "EvalMutation" =>
        LET plain == MutationPolicyEvalMutation(PlainCtxs, PlainPolicy, call.ctx, call.arg)
        IN  call.log = plain.log /\ PlainOf(call.ret) = plain.ret
    /\ call.op = "DecisionContext" =>
        LET plain == DecisionContext(PlainCtxs, call.ctx, PlainOf(call.decision))
        IN  (call.out = call.ctx) <=> (plain.ctx = call.ctx)
    /\ call.op = "decisionFromContext" =>
        LET plain == decisionFromContext(PlainCtxs, call.ctx)
        IN  call.ok = plain.ok /\ PlainOf(call.ret) = plain.decision

\* a Skip and a Deny, each under two layers, as the results of two rules
C11_Witness ==
    /\ call.op = "EvalQuery"
    /\ ~Carried.found
    /\ Len(call.policy) = 2
    /\ Result(1) = Errorf("m1", <<Skipf("m1", <<>>)>>)
    /\ Result(2) = Errorf("m1", <<Denyf("m1", <<>>)>>)
    /\ call.ret = Result(2)
    /\ call.log = <<<<1>>, <<2>>>>

\* The decision an evaluation owes to its inputs alone: the decision the
\* context carries if there is one, else the first result that does not let
\* the pipeline continue, an Allow read as success.
RefDecision(carried, results) ==
    LET stops == {k \in 1..Len(results) : ~Continues(results[k])}
        first == CHOOSE k \in stops : \A j \in stops : k <= j
        d == IF carried.found THEN carried.val
             ELSE IF stops = {} THEN NilErr
             ELSE results[first]
    IN  IF ErrorsIs(d, Allow) THEN NilErr ELSE d

\* C13: an evaluation changes neither the contexts (so not the decision any
\* of them carries) nor the policy, and its decision is a function of the
\* carried decision and the rule results only, so that evaluating again with
\* the same inputs gives the same decision.
C13_EvaluationIsPure ==
    [][(call'.op \in {"EvalQuery", "EvalMutation"}) =>
        /\ ctxs' = ctxs
        /\ call'.after = call'.policy
        /\ call'.ret =
            RefDecision(CtxValue(ctxs, call'.ctx, decisionCtxKey),
                        [i \in 1..Len(call'.policy) |-> call'.policy[i].ret])]_vars

\* an evaluation that ran all of a full-length policy
C13_Witness ==
    /\ call.op = "EvalMutation"
    /\ ~Carried.found
    /\ Len(call.policy) = MaxRules
    /\ Len(call.log) = MaxRules
    /\ call.after = call.policy
    /\ call.ret = Result(MaxRules)
    /\ call.ret # NilErr

\* C15: a combined Policy answers a query check with what its Query policy
\* returns, invoking query rules only, and a mutation check with what its
\* Mutation policy returns, invoking mutation rules only.
C15_PolicyDelegates ==
    /\ call.op = "PolicyEvalQuery" =>
        LET r == QueryPolicyEvalQuery(ctxs, call.combined.Query, call.ctx, call.arg)
        IN  /\ call.ret = r.ret
            /\ Len(call.log) = Len(r.log)
            /\ \A i \in 1..Len(call.log) :
                call.log[i].field = "Query" /\ call.log[i].at = r.log[i]
    /\ call.op = "PolicyEvalMutation" =>
        LET r == MutationPolicyEvalMutation(ctxs, call.combined.Mutation, call.ctx, call.arg)
        IN  /\ call.ret = r.ret
            /\ Len(call.log) = Len(r.log)
            /\ \A i \in 1..Len(call.log) :
                call.log[i].field = "Mutation" /\ call.log[i].at = r.log[i]

\* Query rules that allow next to Mutation rules that deny: the query check
\* succeeds after one query rule
C15_Witness ==
    /\ call.op = "PolicyEvalQuery"
    /\ ~Carried.found
    /\ call.combined.Query = <<[kind |-> "func", ret |-> Skip], [kind |-> "func", ret |-> Allow]>>
    /\ call.combined.Mutation = <<[kind |-> "func", ret |-> Deny]>>
    /\ call.ret = NilErr
    /\ call.log = <<[field |-> "Query", at |-> <<1>>], [field |-> "Query", at |-> <<2>>]>>

\* the call is made on DenyMutationOperationRule(op), or on the policy of
\* that one rule with no cached decision
OnDenyOperationRule ==
    /\ call.op = "RuleEvalMutation"
    /\ \E op \in Ops : call.rule = DenyMutationOperationRule(op)

OnDenyOperationPolicy ==
    /\ call.op = "EvalMutation"
    /\ ~Carried.found
    /\ \E op \in Ops : call.policy = <<DenyMutationOperationRule(op)>>

\* C16: DenyMutationOperationRule(op) yields a decision matching Deny (and
\* neither Allow nor Skip) for a mutation whose operation matches op and Skip
\* for any other; the policy of that one rule, with no cached decision,
\* denies exactly the mutations whose operation matches op.
C16_DenyMutationOperation ==
    /\ OnDenyOperationRule =>
        IF call.arg.op \cap call.rule.op # {}
        THEN /\ ErrorsIs(call.ret, Deny)
             /\ ~ErrorsIs(call.ret, Allow)
             /\ ~ErrorsIs(call.ret, Skip)
        ELSE call.ret = Skip
    /\ OnDenyOperationPolicy =>
        IF call.arg.op \cap call.policy[1].op # {}
        THEN ErrorsIs(call.ret, Deny)
        ELSE call.ret = NilErr

\* a Delete under the policy [DenyMutationOperationRule(Update|Delete)]
C16_Witness ==
    /\ OnDenyOperationPolicy
    /\ call.policy[1].op = {"Delete", "Update"}
    /\ call.arg = [type |-> "Card", op |-> {"Delete"}]
    /\ ErrorsIs(call.ret, Deny)
    /\ call.ret # Deny
    /\ call.log = <<<<1>>, <<1, 1>>>>

\* C14: contexts are never changed in place. Whatever the interleaving of
\* the goroutines, the parent a goroutine passed to DecisionContext still
\* carries what it carried when the call was made, and the context a
\* finished call returned carries that call's own decision (or is the parent
\* itself when the decision was nil or Skip); two calls never share a derived
\* context.
C14_ContextsImmutable ==
    /\ \A p \in DOMAIN procs :
        /\ procs[p].pc # "idle" =>
            CtxValue(ctxs, procs[p].parent, decisionCtxKey) = procs[p].seen
        /\ procs[p].pc = "done" =>
            IF Continues(procs[p].decision)
            THEN procs[p].out = procs[p].parent
            ELSE /\ procs[p].out # procs[p].parent
                 /\ ctxs[procs[p].out].parent = procs[p].parent
                 /\ CtxValue(ctxs, procs[p].out, decisionCtxKey) =
                        [found |-> TRUE, val |-> procs[p].decision]
    /\ \A p, q \in DOMAIN procs :
        (/\ p # q
         /\ procs[p].pc = "done" /\ procs[q].pc = "done"
         /\ procs[p].out # procs[p].parent /\ procs[q].out # procs[q].parent)
        => procs[p].out # procs[q].out

\* two goroutines derived from one parent that carries Allow: one recorded a
\* Deny, the other an Allow under another message
C14_Witness ==
    /\ procs[1].pc = "done" /\ procs[2].pc = "done"
    /\ procs[1].parent = 1 /\ procs[2].parent = 1
    /\ ctxs[1].val = Allowf("m1", <<>>)
    /\ procs[1].decision = Denyf("m1", <<>>)
    /\ procs[2].decision = Allowf("m1", <<>>)
    /\ procs[1].out = 3 /\ procs[2].out = 2
    /\ CtxValue(ctxs, 1, decisionCtxKey).val = Allowf("m1", <<>>)
    /\ CtxValue(ctxs, 3, decisionCtxKey).val = Denyf("m1", <<>>)

\* the edges of the entity the call was made on
CalledEdges == ents[call.arg.addr].Edges

DeletedLabel == IF call.op = "FileDeleteOne.Exec" THEN "file" ELSE "device"

\* C18: DeleteOne.Exec returns the error of the underlying delete when there
\* is one, whatever the count; a NotFoundError when the delete succeeded and
\* removed nothing; and nil only when it succeeded and removed at least one
\* entity.
C18_DeleteOneExec ==
    (call.op \in {"FileDeleteOne.Exec", "DeviceDeleteOne.Exec"}) =>
        /\ call.inner.err # NilErr => call.ret = call.inner.err
        /\ (call.inner.err = NilErr /\ call.inner.n = 0) =>
            call.ret = NotFoundError(DeletedLabel)
        /\ call.ret = NilErr <=> (call.inner.err = NilErr /\ call.inner.n >= 1)

\* a delete that failed on a constraint and removed nothing: the error, not
\* a NotFoundError
C18_Witness ==
    /\ call.op = "DeviceDeleteOne.Exec"
    /\ call.inner = [n |-> 0, err |-> ConstraintError(ErrUnique)]
    /\ call.ret = ConstraintError(ErrUnique)
    /\ del.Device.done

\* C19: Unwrap on an entity whose driver is a transaction driver replaces
\* that driver by the driver that created the transaction, changes nothing
\* else and returns the same entity; on any other entity it panics and
\* changes nothing.
C19_Unwrap ==
    [][call'.op = "Unwrap" =>
        LET m == call'.arg.addr
        IN  IF ents[m].driver.tx
            THEN /\ ents' = [ents EXCEPT
                                ![m].driver = [tx |-> FALSE, drv |-> ents[m].driver.drv]]
                 /\ call'.out = m
                 /\ call'.panic = ""
            ELSE /\ call'.panic = "ent: GroupTag is not a transactional entity"
                 /\ ents' = ents]_vars

\* an entity unwrapped from its transaction
C19_Witness ==
    /\ call.op = "Unwrap"
    /\ call.panic = ""
    /\ call.out = call.arg.addr
    /\ ents[call.out].driver = [tx |-> FALSE, drv |-> "drv2"]

\* what the k-th gate of builder i answers under the context of the call
GateErr(i, k) ==
    MutationPolicyEvalMutation(ctxs, builders[i].hooks[k].policy, call.ctx,
                               CardMutationArg).ret

\* some gate of builder i denies (or fails); the answer of the first that does
Denied(i) == \E k \in 1..Len(builders[i].hooks) : GateErr(i, k) # NilErr

FirstGateErr(i) ==
    GateErr(i, CHOOSE k \in 1..Len(builders[i].hooks) :
                    /\ GateErr(i, k) # NilErr
                    /\ \A j \in 1..(k - 1) : GateErr(i, j) = NilErr)

\* the spec of a mutation as a gate saw it
SpecSeen(g) == createSpec([mutation |-> g.saw, hooks |-> <<>>])

\* C12: with the privacy policy as a gate before the storage step, a Deny
\* or other error of the gate aborts Save and CardCreateBulk.Save: no
\* CreateNode / BatchCreate call is made and the gate's error is returned;
\* when every gate answers nil (an Allow, or all rules skipped) a valid
\* operation reaches storage, with the mutation as the gates saw it.
C12_GateBeforeStorage ==
    /\ call.op = "CardCreate.Save" =>
        LET i == call.arg.addr
        IN  IF Denied(i)
            THEN /\ call.stored = <<>>
                 /\ call.nodes = <<>>
                 /\ call.ret = FirstGateErr(i)
            ELSE check(builders[i]) = NilErr =>
                /\ call.stored = <<[op |-> "CreateNode",
                                    specs |-> <<createSpec(builders[i])>>]>>
                /\ \A g \in 1..Len(call.gates) :
                    SpecSeen(call.gates[g]) = createSpec(builders[i])
    /\ (call.op = "CardCreateBulk.Save" /\ call.decision = NilErr) =>
        LET n == Len(builders)
            valid == \A i \in 1..n : check(builders[i]) = NilErr
            first == CHOOSE i \in 1..n : Denied(i) /\ \A j \in 1..(i - 1) : ~Denied(j)
        IN  IF \E i \in 1..n : Denied(i)
            THEN /\ call.stored = <<>>
                 /\ call.nodes = <<>>
                 /\ call.ret # NilErr
                 /\ valid => call.ret = FirstGateErr(first)
            ELSE (valid /\ n > 0) =>
                call.stored = <<[op |-> "BatchCreate",
                                 specs |-> [i \in 1..n |-> createSpec(builders[i])]]>>

\* a bulk of two valid builders: the gate of the first allows, the gate of
\* the second denies, and nothing is stored
C12_Witness ==
    /\ call.op = "CardCreateBulk.Save"
    /\ call.decision = NilErr
    /\ Len(builders) = 2
    /\ check(builders[1]) = NilErr /\ check(builders[2]) = NilErr
    /\ builders[1].hooks = <<GateHook(<<FuncRule(Skip), FuncRule(Allow)>>)>>
    /\ builders[2].hooks = <<GateHook(<<FuncRule(Skip), FuncRule(Denyf("m1", <<>>))>>)>>
    /\ call.ret = Denyf("m1", <<>>)
    /\ call.stored = <<>>
    /\ Len(call.gates) = 2
    /\ ~builders[1].mutation.done

\* C20: Save applies the defaults before the hooks and the save step run.
\* After it "type" and "owner_id" are set, to the caller's value where there
\* was one and to the schema default otherwise; the other fields are as they
\* were; and the hooks and the storage layer see the fields so completed.
C20_DefaultsBeforeSave ==
    [][call'.op = "CardCreate.Save" =>
        LET before == builders[call'.arg.addr].mutation
            after == builders'[call'.arg.addr].mutation
            type == IF before.type.ok THEN before.type ELSE Some(DefaultType)
            owner == IF before.owner.ok THEN before.owner ELSE Some(DefaultOwnerID)
        IN  /\ after.type = type
            /\ after.owner = owner
            /\ after.number_hash = before.number_hash
            /\ after.cvv_hash = before.cvv_hash
            /\ after.expires_at = before.expires_at
            /\ after.payments = before.payments
            /\ \A g \in 1..Len(call'.gates) :
                /\ call'.gates[g].saw.type = type
                /\ call'.gates[g].saw.owner = owner
            /\ \A k \in 1..Len(call'.stored) :
                /\ call'.stored[k].specs[1].type = type
                /\ call'.stored[k].specs[1].owner = <<owner.v>>]_vars

\* a saved card whose type the caller set and whose owner is the default,
\* with expires_at left unset, behind a gate
C20_Witness ==
    /\ call.op = "CardCreate.Save"
    /\ call.ret = NilErr
    /\ Len(call.gates) = 1
    /\ call.gates[1].saw.type = Some("visa")
    /\ call.gates[1].saw.owner = Some(DefaultOwnerID)
    /\ Len(call.stored) = 1
    /\ call.stored[1].specs[1].type = Some("visa")
    /\ call.stored[1].specs[1].owner = <<DefaultOwnerID>>
    /\ call.stored[1].specs[1].expires_at = None
    /\ builders[1].mutation.done

\* the builder a SetNillable* call was made on, before the call
NillableBefore == builders[call'.arg.addr]

\* C21: SetNillableType, SetNillableExpiresAt and SetNillableOwnerID given nil
\* leave every builder and its mutation as they were; given a pointer to a
\* value they change the builder exactly as SetType, SetExpiresAt and
\* SetOwnerID do with that value; either way they return the builder they
\* were called on.
C21_SetNillable ==
    [][(call'.op \in {"SetNillableType", "SetNillableExpiresAt", "SetNillableOwnerID"}) =>
        LET a == call'.arg.addr
            v == call'.ptr
            set == CASE call'.op = "SetNillableType" -> SetType(NillableBefore, v.v)
                     [] call'.op = "SetNillableExpiresAt" -> SetExpiresAt(NillableBefore, v.v)
                     [] call'.op = "SetNillableOwnerID" -> SetOwnerID(NillableBefore, v.v)
        IN  /\ call'.out = a
            /\ v = None => builders' = builders
            /\ v # None => builders' = [builders EXCEPT ![a] = set]
            /\ UNCHANGED <<ctxs, procs, ents, del>>]_vars

\* SetNillableType(nil) on the second builder, whose type was set before: the
\* type stays
C21_Witness ==
    /\ call.op = "SetNillableType"
    /\ call.ptr = None
    /\ call.arg.addr = 2
    /\ call.out = 2
    /\ builders[2].mutation.type = Some("visa")
    /\ builders[2].mutation.owner = Some("u7")

\* the required items of a Card in the order check looks at them, and
\* whether the mutation m has each
Required == <<"type", "number_hash", "cvv_hash", "owner_id", "owner">>

Has(m, name) ==
    CASE name = "type" -> m.type.ok
      [] name = "number_hash" -> m.number_hash.ok
      [] name = "cvv_hash" -> m.cvv_hash.ok
      [] name = "owner_id" -> m.owner.ok
      [] name = "owner" -> Len(OwnerIDs(m)) > 0

\* the positions in Required of the items m lacks
Missing(m) == {k \in 1..Len(Required) : ~Has(m, Required[k])}

\* C22: sqlSave on a builder that lacks a required field (type, number_hash,
\* cvv_hash, owner_id) or the owner edge returns no node and a
\* ValidationError naming the first item lacking in that order, makes no
\* CreateNode call and leaves the mutation, its id and done flag included, as
\* it was; on a complete builder it makes the one CreateNode call.
C22_ValidateBeforeStorage ==
    [][call'.op = "CardCreate.sqlSave" =>
        LET a == call'.arg.addr
            m == builders[a].mutation
            first == CHOOSE k \in Missing(m) : \A j \in Missing(m) : k <= j
        IN  IF Missing(m) # {}
            THEN /\ call'.ret = ValidationError(Required[first])
                 /\ call'.nodes = <<>>
                 /\ call'.stored = <<>>
                 /\ builders'[a].mutation.id = m.id
                 /\ builders'[a].mutation.done = m.done
                 /\ builders' = builders
            ELSE /\ Len(call'.stored) = 1
                 /\ call'.stored[1].op = "CreateNode"]_vars

\* the save step on a builder with type and owner_id set and both hashes
\* lacking: the error names number_hash
C22_Witness ==
    /\ call.op = "CardCreate.sqlSave"
    /\ builders[1].mutation.type.ok
    /\ builders[1].mutation.owner.ok
    /\ ~builders[1].mutation.number_hash.ok
    /\ ~builders[1].mutation.cvv_hash.ok
    /\ call.ret = ValidationError("number_hash")
    /\ call.stored = <<>>
    /\ builders[1].mutation.id = None
    /\ ~builders[1].mutation.done

\* the policy of the call with Skip in place of every nil result
NilAsSkip ==
    [i \in 1..Len(call.policy) |->
        IF Result(i) = NilErr THEN [call.policy[i] EXCEPT !.ret = Skip]
        ELSE call.policy[i]]

\* C23: a rule that returns nil is treated exactly like one that returns
\* Skip, not like an Allow: the evaluation invokes the same rules and returns
\* the same decision as with Skip in place of every nil, a nil reached by
\* the loop is followed by the next rule, and [nil, Deny] returns the Deny.
C23_NilIsSkip ==
    /\ call.op = "EvalQuery" =>
        LET r == QueryPolicyEvalQuery(ctxs, NilAsSkip, call.ctx, call.arg)
        IN  call.ret = r.ret /\ call.log = r.log
    /\ call.op = "EvalMutation" =>
        LET r == MutationPolicyEvalMutation(ctxs, NilAsSkip, call.ctx, call.arg)
        IN  call.ret = r.ret /\ call.log = r.log
    /\ (IsEval /\ ~Carried.found) =>
        \A k \in 1..(Len(call.policy) - 1) :
            (Result(k) = NilErr /\ \A j \in 1..(k - 1) : Continues(Result(j)))
            => (Len(call.log) > k /\ call.log[k + 1] = <<k + 1>>)
    /\ (IsEval /\ ~Carried.found /\ Len(call.policy) = 2
        /\ Result(1) = NilErr /\ Result(2) = Deny) => call.ret = Deny

\* the policy [rule returning nil, rule returning Deny] denies
C23_Witness ==
    /\ call.op = "EvalQuery"
    /\ ~Carried.found
    /\ Len(call.policy) = 2
    /\ Result(1) = NilErr
    /\ Result(2) = Deny
    /\ call.ret = Deny
    /\ call.log = <<<<1>>, <<2>>>>

\* rule k is reached by the loop: no rule before it ended the evaluation
Reached(k) == \A j \in 1..(k - 1) : Continues(Result(j))

\* C24: the classification tests Skip first, then Allow, then the rest. A
\* rule result that matches Skip and also Allow or Deny lets the pipeline go
\* on to the next rule (and to success after the last); one that matches
\* Allow and Deny but not Skip ends the evaluation with success; and
\* DecisionContext returns its parent, storing nothing, for a decision that
\* matches Skip even if it also matches Allow or Deny.
C24_ClassificationPrecedence ==
    /\ (IsEval /\ ~Carried.found) =>
        \A k \in 1..Len(call.policy) :
            /\ (/\ Reached(k)
                /\ ErrorsIs(Result(k), Skip)
                /\ ErrorsIs(Result(k), Allow) \/ ErrorsIs(Result(k), Deny))
               => IF k < Len(call.policy)
                  THEN Len(call.log) > k /\ call.log[k + 1] = <<k + 1>>
                  ELSE call.ret = NilErr /\ InvokedUpTo(k)
            /\ (/\ Reached(k)
                /\ ErrorsIs(Result(k), Allow)
                /\ ErrorsIs(Result(k), Deny)
                /\ ~ErrorsIs(Result(k), Skip))
               => (call.ret = NilErr /\ InvokedUpTo(k))
    /\ (call.op = "DecisionContext" /\ ErrorsIs(call.decision, Skip)) =>
        call.out = call.ctx
    /\ \A n \in 1..Len(ctxs) : ~ErrorsIs(ctxs[n].val, Skip)

\* a result matching Skip and Deny, then one matching Allow and Deny: the
\* first is passed over and the second allows
C24_Witness ==
    /\ call.op = "EvalQuery"
    /\ ~Carried.found
    /\ Len(call.policy) = 2
    /\ Result(1) = Denyf("m1", <<Skip>>)
    /\ Result(2) = Denyf("m1", <<Allow>>)
    /\ call.ret = NilErr
    /\ call.log = <<<<1>>, <<2>>>>

\* the calls of the sequence whose decision was neither nil nor Skip
Definitive == {i \in 1..Len(call.chain) : ~Continues(call.chain[i])}

LastDefinitive == CHOOSE i \in Definitive : \A j \in Definitive : j <= i

\* the context the i-th call of the sequence was made on
ChainParent(i) == IF i = 1 THEN call.ctx ELSE call.outs[i - 1]

\* C25: after any sequence of DecisionContext calls that starts from a
\* context with no decision, each call made on the context the call before
\* it returned, the last context carries the decision of the most recent
\* call whose decision was neither nil nor Skip, and none when there was no
\* such call; decisionFromContext reads that decision back (an Allow as
\* nil). A call with nil or Skip returns the very context it was given; any
\* other call returns a new context whose parent is the one it was given.
C25_MostRecentDecision ==
    call.op = "DecisionContextChain" =>
        /\ Len(call.outs) = Len(call.chain)
        /\ \A i \in 1..Len(call.chain) :
            IF Continues(call.chain[i])
            THEN call.outs[i] = ChainParent(i)
            ELSE /\ call.outs[i] # ChainParent(i)
                 /\ ctxs[call.outs[i]].parent = ChainParent(i)
        /\ IF Definitive = {}
           THEN /\ call.out = call.ctx
                /\ ~CtxValue(ctxs, call.out, decisionCtxKey).found
                /\ ~call.ok
           ELSE /\ call.out = call.outs[Len(call.outs)]
                /\ CtxValue(ctxs, call.out, decisionCtxKey) =
                        [found |-> TRUE, val |-> call.chain[LastDefinitive]]
                /\ call.ok
                /\ call.ret = IF ErrorsIs(call.chain[LastDefinitive], Allow)
                              THEN NilErr ELSE call.chain[LastDefinitive]

\* the sequence Allow, Deny("m1"), Skip: the Deny is read back
C25_Witness ==
    /\ call.op = "DecisionContextChain"
    /\ call.chain = <<Allow, Denyf("m1", <<>>), Skipf("m1", <<>>)>>
    /\ call.outs[2] = call.outs[3]
    /\ call.outs[1] # call.outs[2]
    /\ call.ok
    /\ call.ret = Denyf("m1", <<>>)

IsBulkSave == call.op = "CardCreateBulk.Save"

\* where in the trace of the call BatchCreate was invoked
BatchCalls == {p \in 1..Len(call.trace) : call.trace[p].ev = "BatchCreate"}

\* the last event of a kind on builder i before position p (0 if none)
LastBefore(kind, i, p) ==
    LET S == {q \in 1..(p - 1) : call.trace[q] = Ev(kind, i)}
    IN  IF S = {} THEN 0 ELSE CHOOSE q \in S : \A r \in S : r <= q

\* before position p every builder was checked and then had its create
\* spec built, builder after builder in index order
Prepared(p) ==
    \A i \in 1..Len(builders) :
        /\ LastBefore("check", i, p) > 0
        /\ LastBefore("check", i, p) < LastBefore("createSpec", i, p)
        /\ i > 1 => LastBefore("createSpec", i - 1, p) < LastBefore("check", i, p)

\* no hook of any builder calls the mutator it wraps more than once
CallsNextOnce ==
    \A i \in 1..Len(builders) :
        \A k \in 1..Len(builders[i].hooks) : builders[i].hooks[k].kind # "retry"

\* What holds of every CardCreateBulk.Save: BatchCreate is the only storage
\* call; it is invoked only from the last builder's mutator and only after
\* every builder was checked with success and had its spec built, in index
\* order; never if some builder's check fails or some hook returns an error
\* without calling the next mutator; and with a preset error or with no
\* builder nothing runs at all.
BulkOrder ==
    IsBulkSave =>
        /\ Len(call.stored) = Cardinality(BatchCalls)
        /\ \A k \in 1..Len(call.stored) : call.stored[k].op = "BatchCreate"
        /\ \A p \in BatchCalls :
            /\ call.trace[p].i = Len(builders)
            /\ Prepared(p)
            /\ \A i \in 1..Len(builders) : check(builders[i]) = NilErr
        /\ (call.decision = NilErr /\ \E i \in 1..Len(builders) :
                check(builders[i]) # NilErr \/ Denied(i))
            => BatchCalls = {}
        /\ (call.decision # NilErr \/ Len(builders) = 0)
            => (call.stored = <<>> /\ call.trace = <<>>)

====
